---------------------------- MODULE Spec2Model ----------------------------
(***************************************************************************)
(* Model of dapr's pkg/messaging/v1/util.go: the bridge between the        *)
(* internal metadata map and gRPC metadata / HTTP headers, the propagation *)
(* of the trace context in the four directions, and the translation        *)
(* between HTTP status codes and gRPC status codes.                        *)
(*                                                                         *)
(* Every function of the file is pure (its result depends on its arguments *)
(* and on Go's map iteration order only), so one behaviour of the model is *)
(* one call: Init draws the function and its arguments, the function's     *)
(* action computes the result as the code does and moves pc to "done".     *)
(*                                                                         *)
(* Representation.  A Go string is a TLA+ string that writes its bytes:    *)
(* a printable ASCII byte as its character, any other byte (and the        *)
(* percent sign, the double quote, the backslash and the backquote) as a   *)
(* percent sign and two lower-case hexadecimal digits.  Bytes(s) gives the *)
(* bytes of a Go string and Str(b) the Go string of bytes; whatever the    *)
(* code does to the bytes of a string (its length, a slice of it, base64,  *)
(* hexadecimal) is done on Bytes(s).                                       *)
(***************************************************************************)
EXTENDS Integers, Sequences, FiniteSets, TLC

VARIABLES
    pc,                   \* "start" before the call, "done" after it
    op,                   \* the function that is called
    ctx,                  \* context.Context: the span context of the ambient span
    internalMD,           \* DaprInternalMetadata: key -> list of values
    httpHeaderConversion, \* argument of InternalMetadataToGrpcMetadata
    md,                   \* metadata.MD returned by InternalMetadataToGrpcMetadata
    headers,              \* the setHeader(name, value) calls, in call order
    panicked,             \* the call ended in a run-time panic
    httpStatusCode,       \* argument of CodeFromHTTPStatus / ErrorFromHTTPResponseCode
    detail,               \* argument of ErrorFromHTTPResponseCode
    code,                 \* argument of HTTPStatusFromCode
    internalStatus,       \* argument of ErrorFromInternalStatus
    retCode,              \* result of CodeFromHTTPStatus / HTTPStatusFromCode
    retErr,               \* result of ErrorFromHTTPResponseCode / ErrorFromInternalStatus
    retBool,              \* result of IsGRPCProtocol
    g,                    \* the recorder, *grpcMetrics: appID, enabled, meter
    initCall,             \* the call of g.Init: its position and its result
    rpc,                  \* the calls in progress: call -> its record
    measurements,         \* the measurements recorded, each with its call
    errorCodes,           \* the RecordErrorCode calls, in order
    now                   \* the clock

callVars == <<pc, op, ctx, internalMD, httpHeaderConversion, md, headers, panicked,
              httpStatusCode, detail, code, internalStatus, retCode, retErr,
              retBool>>

recorderVars == <<g, initCall, rpc, measurements, errorCodes, now>>

vars == <<callVars, recorderVars>>

bridgeVars == <<ctx, internalMD, httpHeaderConversion, md, headers, panicked>>

-----------------------------------------------------------------------------
(* Bounds of the model.                                                    *)

\* HTTP status codes range over -NegHTTPStatus .. MaxHTTPStatus.
NegHTTPStatus == 2
MaxHTTPStatus == 600
\* gRPC codes range over 0 .. MaxCode (the defined codes are 0..16).
MaxCode == 20
\* An internal metadata map has at most MaxKeys keys.
MaxKeys == 3
\* The longest detail string given to ErrorFromHTTPResponseCode.
MaxDetailLen == 100
MaxTime == 2

-----------------------------------------------------------------------------
(* Go strings.                                                             *)

\* The printable ASCII characters, 32 (space) .. 126 (~), in code order.  The
\* double quote, the backslash and the backquote cannot be written in a
\* string literal here; a space holds their places (34, 92, 96), so that no
\* literal given to B may contain them.
Printable ==
    " ! #$%&'()*+,-./0123456789:;<=>?@ABCDEFGHIJKLMNOPQRSTUVWXYZ[ ]^_ abcdefghijklmnopqrstuvwxyz{|}~"

RECURSIVE IndexOf(_, _, _)
\* The least i >= from with s[i] = c, 0 when there is none (s a string, c one character).
IndexOf(c, s, from) ==
    IF from > Len(s) THEN 0
    ELSE IF SubSeq(s, from, from) = c THEN from
    ELSE IndexOf(c, s, from + 1)

\* The code of each printable ASCII character.
CharCode ==
    [c \in {SubSeq(Printable, i, i) : i \in 1..Len(Printable)} |->
        31 + IndexOf(c, Printable, 1)]

\* The value of a lower-case hexadecimal digit, -1 for any other byte.
HexValue(c) ==
    CASE c >= 48 /\ c <= 57  -> c - 48
      [] c >= 97 /\ c <= 102 -> c - 87
      [] OTHER               -> 0 - 1

\* The lower-case hexadecimal digit of the value v.
HexChar(v) == IF v < 10 THEN v + 48 ELSE v + 87

\* The bytes written as their own character: the printable ones but the
\* percent sign (37), the double quote (34), the backslash (92) and the
\* backquote (96).
Plain(b) == b >= 32 /\ b <= 126 /\ b \notin {34, 37, 92, 96}

\* The byte written at position i of the Go string s, and the number of
\* characters that write it.
Width(s, i) == IF SubSeq(s, i, i) = "%" THEN 3 ELSE 1
ByteAt(s, i) ==
    IF SubSeq(s, i, i) = "%"
    THEN HexValue(CharCode[SubSeq(s, i + 1, i + 1)]) * 16
             + HexValue(CharCode[SubSeq(s, i + 2, i + 2)])
    ELSE CharCode[SubSeq(s, i, i)]

\* The position at or before i where the writing of a byte starts.
ByteStart(s, i) ==
    IF i > 1 /\ SubSeq(s, i - 1, i - 1) = "%" THEN i - 1
    ELSE IF i > 2 /\ SubSeq(s, i - 2, i - 2) = "%" THEN i - 2
    ELSE i

\* The bytes written by the characters lo..hi of s, by halves.
RECURSIVE BytesOf(_, _, _)
BytesOf(s, lo, hi) ==
    IF lo > hi THEN <<>>
    ELSE IF lo + Width(s, lo) > hi THEN <<ByteAt(s, lo)>>
    ELSE LET mid == ByteStart(s, (lo + hi) \div 2 + 1)
             m   == IF mid = lo THEN lo + Width(s, lo) ELSE mid
         IN BytesOf(s, lo, m - 1) \o BytesOf(s, m, hi)

\* The bytes of a Go string: of a string without a percent sign, the codes
\* of its characters.
Bytes(s) ==
    IF \A i \in 1..Len(s) : SubSeq(s, i, i) # "%"
    THEN [i \in 1..Len(s) |-> CharCode[SubSeq(s, i, i)]]
    ELSE BytesOf(s, 1, Len(s))

\* The character of a printable byte, as a string.
Chr(b) == SubSeq(Printable, b - 31, b - 31)

\* The Go string of the bytes lo..hi of b, by halves.
RECURSIVE StrOf(_, _, _)
StrOf(b, lo, hi) ==
    IF lo > hi THEN ""
    ELSE IF lo = hi
    THEN (IF Plain(b[lo]) THEN Chr(b[lo])
          ELSE "%" \o Chr(HexChar(b[lo] \div 16)) \o Chr(HexChar(b[lo] % 16)))
    ELSE LET m == (lo + hi) \div 2
         IN StrOf(b, lo, m) \o StrOf(b, m + 1, hi)

\* The Go string of the bytes b.
Str(b) == StrOf(b, 1, Len(b))

\* len(s) and s[:n] of a Go string.
GoLen(s) == Len(Bytes(s))
GoPrefix(s, n) == Str(SubSeq(Bytes(s), 1, n))

\* strings.HasPrefix / strings.HasSuffix.  The writing of a Go string is
\* prefix-free byte by byte, so a prefix of the bytes is a prefix of the
\* writing; the suffix test is used on keys only, which are plain.
HasPrefix(s, prefix) ==
    Len(s) >= Len(prefix) /\ SubSeq(s, 1, Len(prefix)) = prefix

HasSuffix(s, suffix) ==
    Len(s) >= Len(suffix) /\ SubSeq(s, Len(s) - Len(suffix) + 1, Len(s)) = suffix

UpperLetters == "ABCDEFGHIJKLMNOPQRSTUVWXYZ"
LowerLetters == "abcdefghijklmnopqrstuvwxyz"

\* The lower-case letter of each upper-case letter.
LowerOf ==
    [c \in {SubSeq(UpperLetters, i, i) : i \in 1..Len(UpperLetters)} |->
        LET u == IndexOf(c, UpperLetters, 1) IN SubSeq(LowerLetters, u, u)]

RECURSIVE ToLowerFrom(_, _)
\* The characters of s from the i-th on, in lower case.
ToLowerFrom(s, i) ==
    IF i > Len(s) THEN ""
    ELSE LET c == SubSeq(s, i, i)
         IN (IF c \in DOMAIN LowerOf THEN LowerOf[c] ELSE c) \o ToLowerFrom(s, i + 1)

\* The keys of the maps the calls are made with, and their lower-case forms,
\* computed once.
TraceKeys ==
    {"content-type", "traceparent", "Traceparent", "tracestate", "grpc-trace-bin"}
ProtocolKeys == {"content-type", "Content-Type", "traceparent", "grpc-trace-bin"}
GrpcMDKeys ==
    {"Accept", "accept", "Content-Type", "user-bin", "User-Bin", "x-request-id",
     "destination-app-id"}
HTTPHeaderKeys ==
    {"content-type", "Content-Type", "traceparent", "x-request-id", "baggage",
     "Baggage", "destination-app-id", "Destination-App-Id", "user-bin", "User-Bin"}
ReservedKeys ==
    {":method", ":scheme", ":path", ":authority", "grpc-timeout", "Grpc-Encoding",
     "dapr-method", "X-Request-Id"}
CaseKeys == {"Foo", "foo", "Traceparent", "traceparent"}
Keys == TraceKeys \cup ProtocolKeys \cup GrpcMDKeys \cup HTTPHeaderKeys
            \cup ReservedKeys \cup CaseKeys
LowerKeys == [k \in Keys |-> ToLowerFrom(k, 1)]

\* strings.ToLower on an ASCII string.
ToLower(s) == IF s \in Keys THEN LowerKeys[s] ELSE ToLowerFrom(s, 1)

Digits == "0123456789"

RECURSIVE ItoaNat(_)
ItoaNat(n) ==
    IF n < 10 THEN SubSeq(Digits, n + 1, n + 1)
    ELSE ItoaNat(n \div 10) \o SubSeq(Digits, (n % 10) + 1, (n % 10) + 1)

\* strconv.Itoa
Itoa(n) == IF n < 0 THEN "-" \o ItoaNat(0 - n) ELSE ItoaNat(n)

-----------------------------------------------------------------------------
(* google.golang.org/grpc/codes and net/http status codes, as util.go      *)
(* names them.                                                             *)

OK                 == 0
Canceled           == 1
Unknown            == 2
InvalidArgument    == 3
DeadlineExceeded   == 4
NotFound           == 5
AlreadyExists      == 6
PermissionDenied   == 7
ResourceExhausted  == 8
FailedPrecondition == 9
Aborted            == 10
OutOfRange         == 11
Unimplemented      == 12
Internal           == 13
Unavailable        == 14
DataLoss           == 15
Unauthenticated    == 16

StatusOK                  == 200
StatusBadRequest          == 400
StatusUnauthorized        == 401
StatusForbidden           == 403
StatusNotFound            == 404
StatusRequestTimeout      == 408
StatusConflict            == 409
StatusTooManyRequests     == 429
StatusInternalServerError == 500
StatusNotImplemented      == 501
StatusServiceUnavailable  == 503
StatusGatewayTimeout      == 504

\* ErrorInfo metadata value is limited to 64 chars
maxMetadataValueLen == 63

errorInfoDomain            == "dapr.io"
errorInfoHTTPCodeMetadata  == "http.code"
errorInfoHTTPErrorMetadata == "http.error_message"

-----------------------------------------------------------------------------
(* Status/code translation.                                                *)

\* The codes the switch of HTTPStatusFromCode has a case for.
DefinedCodes ==
    {OK, Canceled, Unknown, InvalidArgument, DeadlineExceeded, NotFound,
     AlreadyExists, PermissionDenied, Unauthenticated, ResourceExhausted,
     FailedPrecondition, Aborted, OutOfRange, Unimplemented, Internal,
     Unavailable, DataLoss}

\* The switch of HTTPStatusFromCode, for a code it has a case for.
HTTPStatusFromCodeSwitch(c) ==
    CASE c = OK                 -> StatusOK
      [] c = Canceled           -> StatusRequestTimeout
      [] c = Unknown            -> StatusInternalServerError
      [] c = InvalidArgument    -> StatusBadRequest
      [] c = DeadlineExceeded   -> StatusGatewayTimeout
      [] c = NotFound           -> StatusNotFound
      [] c = AlreadyExists      -> StatusConflict
      [] c = PermissionDenied   -> StatusForbidden
      [] c = Unauthenticated    -> StatusUnauthorized
      [] c = ResourceExhausted  -> StatusTooManyRequests
      [] c = FailedPrecondition -> StatusBadRequest
      [] c = Aborted            -> StatusConflict
      [] c = OutOfRange         -> StatusBadRequest
      [] c = Unimplemented      -> StatusNotImplemented
      [] c = Internal           -> StatusInternalServerError
      [] c = Unavailable        -> StatusServiceUnavailable
      [] c = DataLoss           -> StatusInternalServerError

\* Variants of HTTPStatusFromCode: FAILED_PRECONDITION translated to the
\* similarly named 412; a miss answered with 200.
HTTPStatusFromCode_412(c) ==
    IF c = FailedPrecondition THEN 412
    ELSE IF c \in DefinedCodes THEN HTTPStatusFromCodeSwitch(c)
    ELSE StatusInternalServerError

HTTPStatusFromCode_MissOK(c) ==
    IF c \in DefinedCodes THEN HTTPStatusFromCodeSwitch(c) ELSE StatusOK

\* HTTPStatusFromCode converts a gRPC error code into the corresponding HTTP
\* response status: the switch, then the return for a code without a case.
HTTPStatusFromCode(c) ==
    IF c \in DefinedCodes THEN HTTPStatusFromCodeSwitch(c)
    ELSE StatusInternalServerError

\* The switch of CodeFromHTTPStatus, reached for a status outside 200..299.
CodeFromHTTPStatusSwitch(s) ==
    CASE s = StatusRequestTimeout      -> Canceled
      [] s = StatusInternalServerError -> Unknown
      [] s = StatusBadRequest          -> Internal
      [] s = StatusGatewayTimeout      -> DeadlineExceeded
      [] s = StatusNotFound            -> NotFound
      [] s = StatusConflict            -> AlreadyExists
      [] s = StatusForbidden           -> PermissionDenied
      [] s = StatusUnauthorized        -> Unauthenticated
      [] s = StatusTooManyRequests     -> ResourceExhausted
      [] s = StatusNotImplemented      -> Unimplemented
      [] s = StatusServiceUnavailable  -> Unavailable
      [] OTHER                         -> Unknown

\* Variants of CodeFromHTTPStatus: 300 taken for a success; 400 translated to
\* INVALID_ARGUMENT; 401 and 403 exchanged; a miss answered with INTERNAL.
CodeFromHTTPStatus_Upto300(s) ==
    IF s >= 200 /\ s <= 300 THEN OK ELSE CodeFromHTTPStatusSwitch(s)

CodeFromHTTPStatus_400Invalid(s) ==
    IF s >= 200 /\ s < 300 THEN OK
    ELSE IF s = StatusBadRequest THEN InvalidArgument
    ELSE CodeFromHTTPStatusSwitch(s)

CodeFromHTTPStatus_401Is403(s) ==
    IF s >= 200 /\ s < 300 THEN OK
    ELSE IF s = StatusUnauthorized THEN PermissionDenied
    ELSE IF s = StatusForbidden THEN Unauthenticated
    ELSE CodeFromHTTPStatusSwitch(s)

CodeFromHTTPStatus_MissInternal(s) ==
    IF s >= 200 /\ s < 300 THEN OK
    ELSE IF CodeFromHTTPStatusSwitch(s) = Unknown THEN Internal
    ELSE CodeFromHTTPStatusSwitch(s)

\* A variant that translates 400 back to FAILED_PRECONDITION.
CodeFromHTTPStatus_400FailedPrecondition(s) ==
    IF s >= 200 /\ s < 300 THEN OK
    ELSE IF s = StatusBadRequest THEN FailedPrecondition
    ELSE CodeFromHTTPStatusSwitch(s)

\* CodeFromHTTPStatus converts http status code to gRPC status code.
CodeFromHTTPStatus(s) ==
    IF s >= 200 /\ s < 300 THEN OK ELSE CodeFromHTTPStatusSwitch(s)


\* net/http.StatusText: the reason phrase of a status code, "" when unknown.
StatusText(s) ==
    CASE s = 100 -> "Continue"
      [] s = 101 -> "Switching Protocols"
      [] s = 102 -> "Processing"
      [] s = 103 -> "Early Hints"
      [] s = 200 -> "OK"
      [] s = 201 -> "Created"
      [] s = 202 -> "Accepted"
      [] s = 203 -> "Non-Authoritative Information"
      [] s = 204 -> "No Content"
      [] s = 205 -> "Reset Content"
      [] s = 206 -> "Partial Content"
      [] s = 207 -> "Multi-Status"
      [] s = 208 -> "Already Reported"
      [] s = 226 -> "IM Used"
      [] s = 300 -> "Multiple Choices"
      [] s = 301 -> "Moved Permanently"
      [] s = 302 -> "Found"
      [] s = 303 -> "See Other"
      [] s = 304 -> "Not Modified"
      [] s = 305 -> "Use Proxy"
      [] s = 307 -> "Temporary Redirect"
      [] s = 308 -> "Permanent Redirect"
      [] s = 400 -> "Bad Request"
      [] s = 401 -> "Unauthorized"
      [] s = 402 -> "Payment Required"
      [] s = 403 -> "Forbidden"
      [] s = 404 -> "Not Found"
      [] s = 405 -> "Method Not Allowed"
      [] s = 406 -> "Not Acceptable"
      [] s = 407 -> "Proxy Authentication Required"
      [] s = 408 -> "Request Timeout"
      [] s = 409 -> "Conflict"
      [] s = 410 -> "Gone"
      [] s = 411 -> "Length Required"
      [] s = 412 -> "Precondition Failed"
      [] s = 413 -> "Request Entity Too Large"
      [] s = 414 -> "Request URI Too Long"
      [] s = 415 -> "Unsupported Media Type"
      [] s = 416 -> "Requested Range Not Satisfiable"
      [] s = 417 -> "Expectation Failed"
      [] s = 418 -> "I'm a teapot"
      [] s = 421 -> "Misdirected Request"
      [] s = 422 -> "Unprocessable Entity"
      [] s = 423 -> "Locked"
      [] s = 424 -> "Failed Dependency"
      [] s = 425 -> "Too Early"
      [] s = 426 -> "Upgrade Required"
      [] s = 428 -> "Precondition Required"
      [] s = 429 -> "Too Many Requests"
      [] s = 431 -> "Request Header Fields Too Large"
      [] s = 451 -> "Unavailable For Legal Reasons"
      [] s = 500 -> "Internal Server Error"
      [] s = 501 -> "Not Implemented"
      [] s = 502 -> "Bad Gateway"
      [] s = 503 -> "Service Unavailable"
      [] s = 504 -> "Gateway Timeout"
      [] s = 505 -> "HTTP Version Not Supported"
      [] s = 506 -> "Variant Also Negotiates"
      [] s = 507 -> "Insufficient Storage"
      [] s = 508 -> "Loop Detected"
      [] s = 510 -> "Not Extended"
      [] s = 511 -> "Network Authentication Required"
      [] OTHER   -> ""

RECURSIVE ValidUTF8From(_, _)
\* unicode/utf8.Valid on the bytes of b from position i on.
ValidUTF8From(b, i) ==
    IF i > Len(b) THEN TRUE
    ELSE LET c    == b[i]
             cont(j, lo, hi) == j <= Len(b) /\ b[j] >= lo /\ b[j] <= hi
         IN CASE c < 128 -> ValidUTF8From(b, i + 1)
              [] c >= 194 /\ c <= 223 ->
                     cont(i + 1, 128, 191) /\ ValidUTF8From(b, i + 2)
              [] c >= 224 /\ c <= 239 ->
                     /\ cont(i + 1, IF c = 224 THEN 160 ELSE 128,
                                    IF c = 237 THEN 159 ELSE 191)
                     /\ cont(i + 2, 128, 191)
                     /\ ValidUTF8From(b, i + 3)
              [] c >= 240 /\ c <= 244 ->
                     /\ cont(i + 1, IF c = 240 THEN 144 ELSE 128,
                                    IF c = 244 THEN 143 ELSE 191)
                     /\ cont(i + 2, 128, 191)
                     /\ cont(i + 3, 128, 191)
                     /\ ValidUTF8From(b, i + 4)
              [] OTHER -> FALSE

ValidUTF8(b) == ValidUTF8From(b, 1)

\* The nil error.
NilError == [nil |-> TRUE, code |-> OK, message |-> "", details |-> <<>>]

\* grpcStatus.New(c, msg), as the error its Err() gives.
StatusNew(c, msg) == [nil |-> FALSE, code |-> c, message |-> msg, details |-> <<>>]

\* A variant that cuts one byte later.
TruncateDetail_Keeps64(d) ==
    IF GoLen(d) > maxMetadataValueLen THEN GoPrefix(d, maxMetadataValueLen + 1) ELSE d

\* The truncation of detail in ErrorFromHTTPResponseCode.
TruncateDetail(d) ==
    IF GoLen(d) >= maxMetadataValueLen THEN GoPrefix(d, maxMetadataValueLen) ELSE d

\* The ErrorInfo detail ErrorFromHTTPResponseCode attaches.
ErrorInfo(reason, c, d) ==
    [reason   |-> reason,
     domain   |-> errorInfoDomain,
     metadata |-> (errorInfoHTTPCodeMetadata :> Itoa(c))
                      @@ (errorInfoHTTPErrorMetadata :> d)]

\* (*Status).WithDetails: its error is non-nil when the status is OK or when the
\* detail does not marshal, which for an ErrorInfo is when a string of it is
\* not valid UTF-8.
WithDetailsFails(st, info) ==
    \/ st.code = OK
    \/ \E k \in DOMAIN info.metadata : ~ValidUTF8(Bytes(info.metadata[k]))

\* A variant that gives the detail as the reason of the ErrorInfo.
ErrorFromHTTPResponseCode_DetailAsReason(c, d) ==
    LET grpcCode       == CodeFromHTTPStatus(c)
        httpStatusText == StatusText(c)
        respStatus     == StatusNew(grpcCode, httpStatusText)
        info           == ErrorInfo(TruncateDetail(d), c, TruncateDetail(d))
    IN IF grpcCode = OK THEN NilError
       ELSE IF WithDetailsFails(respStatus, info) THEN respStatus
       ELSE [respStatus EXCEPT !.details = <<info>>]

\* ErrorFromHTTPResponseCode converts http response code to gRPC status error.
ErrorFromHTTPResponseCode(c, d) ==
    LET grpcCode       == CodeFromHTTPStatus(c)
        httpStatusText == StatusText(c)
        respStatus     == StatusNew(grpcCode, httpStatusText)
        info           == ErrorInfo(httpStatusText, c, TruncateDetail(d))
    IN IF grpcCode = OK THEN NilError
       ELSE IF WithDetailsFails(respStatus, info) THEN respStatus
       ELSE [respStatus EXCEPT !.details = <<info>>]

\* internalv1pb.Status / spb.Status: code, message and the ordered details.
Status(c, msg, details) == [code |-> c, message |-> msg, details |-> details]

\* grpcStatus.ErrorProto(s), that is FromProto(s).Err(): nil for the code OK,
\* otherwise the error that holds the status.
ErrorProto(s) ==
    IF s.code = OK THEN NilError
    ELSE [nil |-> FALSE, code |-> s.code, message |-> s.message,
          details |-> s.details]

\* A variant that gives the message of a status with details up.
ErrorFromInternalStatus_DropsMessage(st) ==
    ErrorProto(Status(st.code, IF Len(st.details) > 0 THEN "" ELSE st.message,
                      st.details))

\* ErrorFromInternalStatus converts internal status to gRPC status error.
ErrorFromInternalStatus(st) ==
    LET respStatus == Status(st.code, st.message, st.details)
    IN ErrorProto(respStatus)

-----------------------------------------------------------------------------
(* encoding/base64: StdEncoding.DecodeString.                              *)

\* The 6-bit value of a character of the standard alphabet, -1 for any other byte.
Base64Value(c) ==
    CASE c >= 65 /\ c <= 90  -> c - 65
      [] c >= 97 /\ c <= 122 -> c - 71
      [] c >= 48 /\ c <= 57  -> c + 4
      [] c = 43              -> 62
      [] c = 47              -> 63
      [] OTHER               -> 0 - 1

\* The character of the standard alphabet with 6-bit value v.
Base64Char(v) ==
    CASE v <= 25 -> v + 65
      [] v <= 51 -> v + 71
      [] v <= 61 -> v - 4
      [] v = 62  -> 43
      [] OTHER   -> 47

PadChar == 61

\* The first n bytes of the three that four 6-bit values make.
QuantumBytes(d0, d1, d2, d3, n) ==
    LET val == d0 * 262144 + d1 * 4096 + d2 * 64 + d3
    IN SubSeq(<<val \div 65536, (val \div 256) % 256, val % 256>>, 1, n)

RECURSIVE ValidRun(_, _, _)
\* How many of the bytes src[i], src[i+1], ... (at most max) are alphabet characters.
ValidRun(src, i, max) ==
    IF max = 0 \/ i > Len(src) \/ Base64Value(src[i]) < 0 THEN 0
    ELSE 1 + ValidRun(src, i + 1, max - 1)

RECURSIVE DecodeFrom(_, _, _)
\* The decoding loop from position i on, dst the bytes written so far: one
\* quantum of four characters a round.  The result is the data written and
\* whether the input was corrupt; as in Go, the data written before the corrupt
\* quantum is returned with the error.
DecodeFrom(src, i, dst) ==
    IF i > Len(src) THEN [data |-> dst, err |-> FALSE]
    ELSE LET j == ValidRun(src, i, 4)
             v(k) == Base64Value(src[i + k])
         IN IF j = 4
            THEN DecodeFrom(src, i + 4,
                            dst \o QuantumBytes(v(0), v(1), v(2), v(3), 3))
            ELSE IF i + j > Len(src) \/ src[i + j] # PadChar \/ j < 2
            THEN \* the input ends inside the quantum, or holds a byte that is
                 \* neither of the alphabet nor padding, or padding too early
                 [data |-> dst, err |-> TRUE]
            ELSE IF j = 2 /\ (i + 3 > Len(src) \/ src[i + 3] # PadChar)
            THEN \* "==" is expected
                 [data |-> dst, err |-> TRUE]
            ELSE \* a padded last quantum; bytes after it are trailing garbage,
                 \* reported after the quantum has been written
                 [data |-> dst \o QuantumBytes(v(0), v(1),
                                               IF j = 3 THEN v(2) ELSE 0, 0, j - 1),
                  err  |-> i + 4 <= Len(src)]

\* The input without the carriage returns and line feeds, which the decoder skips.
SkipNewlines(src) == SelectSeq(src, LAMBDA c : c # 10 /\ c # 13)

\* base64.StdEncoding.DecodeString: the decoded data, as a Go string, and
\* whether the input was corrupt.
DecodeString(s) ==
    LET r == DecodeFrom(SkipNewlines(Bytes(s)), 1, <<>>)
    IN [data |-> Str(r.data), err |-> r.err]

RECURSIVE EncodeFrom(_, _)
\* base64.StdEncoding.EncodeToString, from position i on.
EncodeFrom(b, i) ==
    LET n  == Len(b) - i + 1
        b0 == b[i]
        b1 == IF n >= 2 THEN b[i + 1] ELSE 0
        b2 == IF n >= 3 THEN b[i + 2] ELSE 0
        c0 == Base64Char(b0 \div 4)
        c1 == Base64Char((b0 % 4) * 16 + b1 \div 16)
        c2 == Base64Char((b1 % 16) * 4 + b2 \div 64)
        c3 == Base64Char(b2 % 64)
    IN IF n <= 0 THEN <<>>
       ELSE IF n = 1 THEN <<c0, c1, PadChar, PadChar>>
       ELSE IF n = 2 THEN <<c0, c1, c2, PadChar>>
       ELSE <<c0, c1, c2, c3>> \o EncodeFrom(b, i + 3)

EncodeToString(s) == Str(EncodeFrom(Bytes(s), 1))

-----------------------------------------------------------------------------
(* The trace context and its two encodings (pkg/diagnostics).              *)

TraceIDLen == 16
SpanIDLen  == 8

\* trace.SpanContext: trace-id and span-id (written in hexadecimal), flags,
\* and trace-state (the text of the tracestate header, "" when there is none).
SpanContext(traceID, spanID, traceFlags, traceState) ==
    [traceID |-> traceID, spanID |-> spanID,
     traceFlags |-> traceFlags, traceState |-> traceState]

\* The zero trace.SpanContext.
NoSpanContext == SpanContext("", "", 0, "")

IsHex(t) == \A i \in 1..Len(t) : HexValue(t[i]) >= 0

\* The bytes that the hexadecimal text t (bytes, of even length) writes.
HexDecode(t) ==
    [i \in 1..(Len(t) \div 2) |-> HexValue(t[2 * i - 1]) * 16 + HexValue(t[2 * i])]

\* The lower-case hexadecimal text (bytes) of the bytes b.
HexEncode(b) ==
    [i \in 1..(2 * Len(b)) |->
        IF i % 2 = 1 THEN HexChar(b[(i + 1) \div 2] \div 16)
                     ELSE HexChar(b[i \div 2] % 16)]

Dash == 45

\* diag.SpanContextFromW3CString: version-traceid-spanid-flags, dash-separated,
\* of 2, 32, 16 and 2 hexadecimal characters.
SpanContextFromW3CString(header) ==
    LET h == Bytes(header)
        wellFormed ==
            /\ Len(h) = 2 * TraceIDLen + 2 * SpanIDLen + 7
            /\ h[3] = Dash /\ h[36] = Dash /\ h[53] = Dash
            /\ IsHex(SubSeq(h, 1, 2)) /\ IsHex(SubSeq(h, 4, 35))
            /\ IsHex(SubSeq(h, 37, 52)) /\ IsHex(SubSeq(h, 54, 55))
    IN IF wellFormed
       THEN [ok |-> TRUE,
             sc |-> SpanContext(SubSeq(header, 4, 35), SubSeq(header, 37, 52),
                                HexDecode(SubSeq(h, 54, 55))[1], "")]
       ELSE [ok |-> FALSE, sc |-> NoSpanContext]

\* diag.SpanContextToW3CString: the traceparent text of a span context.
SpanContextToW3CString(sc) ==
    "00-" \o sc.traceID \o "-" \o sc.spanID \o "-"
        \o Str(HexEncode(<<sc.traceFlags>>))

EqualsSign == 61

\* diag.TraceStateFromW3CString: the trace-state of a tracestate header, the
\* empty trace-state when the header is empty or is no key=value list.
TraceStateFromW3CString(header) ==
    LET h == Bytes(header)
    IN IF /\ Len(h) >= 3
          /\ \E i \in 2..(Len(h) - 1) : h[i] = EqualsSign
          /\ h[1] # EqualsSign
       THEN header ELSE ""

\* trace.SpanContext.WithTraceState
WithTraceState(sc, ts) == [sc EXCEPT !.traceState = ts]

\* diagUtils.BinaryFromSpanContext: version 0, then field 0 with the trace-id,
\* field 1 with the span-id, field 2 with the flags.
BinaryFromSpanContext(sc) ==
    Str(<<0, 0>> \o HexDecode(Bytes(sc.traceID)) \o <<1>>
            \o HexDecode(Bytes(sc.spanID)) \o <<2, sc.traceFlags>>)

\* diagUtils.SpanContextFromBinary
SpanContextFromBinary(binary) ==
    LET b == Bytes(binary)
        n == Len(b)
    IN IF n < 2 + TraceIDLen \/ b[1] # 0 \/ b[2] # 0
       THEN [ok |-> FALSE, sc |-> NoSpanContext]
       ELSE LET traceID == SubSeq(b, 3, 2 + TraceIDLen)
                s       == 3 + TraceIDLen
                hasSpan == n >= s + SpanIDLen /\ b[s] = 1
                spanID  == IF hasSpan THEN SubSeq(b, s + 1, s + SpanIDLen)
                           ELSE [i \in 1..SpanIDLen |-> 0]
                f       == IF hasSpan THEN s + SpanIDLen + 1 ELSE s
                flags   == IF n >= f + 1 /\ b[f] = 2 THEN b[f + 1] ELSE 0
            IN [ok |-> TRUE,
                sc |-> SpanContext(Str(HexEncode(traceID)), Str(HexEncode(spanID)),
                                   flags, "")]

-----------------------------------------------------------------------------
(* Names of util.go and of pkg/diagnostics/consts.                         *)

GRPCContentType          == "application/grpc"
JSONContentType          == "application/json"
ContentTypeHeader        == "content-type"
DaprHeaderPrefix         == "dapr-"
gRPCBinaryMetadataSuffix == "-bin"
DestinationIDHeader      == "destination-app-id"

TraceparentHeader   == "traceparent"
TracestateHeader    == "tracestate"
BaggageHeader       == "baggage"
GRPCTraceContextKey == "grpc-trace-bin"
MaxTracestateLen    == 512

\* A variant that compares the names whatever their letter case.
isPermanentHTTPHeader_AnyCase(hdr) ==
    ToLowerFrom(hdr, 1) \in {"accept", "content-type", "host", "cookie"}

\* isPermanentHTTPHeader checks whether hdr belongs to the list of permanent
\* request headers maintained by IANA.
isPermanentHTTPHeader(hdr) ==
    hdr \in {"Accept", "Accept-Charset", "Accept-Language", "Accept-Ranges",
             "Connection", "Keep-Alive", "Proxy-Connection", "Transfer-Encoding",
             "Upgrade", "Cache-Control", "Content-Type", "Content-Length",
             "Cookie", "Date", "Expect", "From", "Host", "If-Match",
             "If-Modified-Since", "If-None-Match", "If-Schedule-Tag-Match",
             "If-Unmodified-Since", "Max-Forwards", "Origin", "Pragma",
             "Referer", "Via", "Warning"}

-----------------------------------------------------------------------------
(* metadata.MD (google.golang.org/grpc/metadata): lower-case key -> values. *)

EmptyMD == [k \in {} |-> <<>>]

Has(m, k) == k \in DOMAIN m

\* MD.Append: adds the values to key k, lower-cased; nothing for no values.
MDAppend(m, k, vals) ==
    LET key == ToLower(k)
    IN IF Len(vals) = 0 THEN m
       ELSE (key :> ((IF Has(m, key) THEN m[key] ELSE <<>>) \o vals)) @@ m

\* MD.Set: sets key k, lower-cased, to the values; nothing for no values.
MDSet(m, k, vals) ==
    IF Len(vals) = 0 THEN m ELSE (ToLower(k) :> vals) @@ m

\* One setHeader(name, value) call.
SetHeader(name, value) == [name |-> name, value |-> value]

RECURSIVE MDSetAll(_, _)
\* setHeader bound to md.Set(header, value), applied to the calls in order.
MDSetAll(m, calls) ==
    IF Len(calls) = 0 THEN m
    ELSE MDSetAll(MDSet(m, Head(calls).name, <<Head(calls).value>>), Tail(calls))

-----------------------------------------------------------------------------
(* Trace propagation.                                                      *)

\* diagUtils.SpanFromContext(ctx).SpanContext(): the ambient span's context.
SpanFromContext(c) == c.span

\* diag.SpanContextToHTTPHeaders, as the setHeader calls it makes: traceparent,
\* then tracestate when the trace-state is not empty.
SpanContextToHTTPHeaders(sc) ==
    <<SetHeader(TraceparentHeader, SpanContextToW3CString(sc))>>
        \o (IF sc.traceState # "" /\ GoLen(sc.traceState) <= MaxTracestateLen
            THEN <<SetHeader(TracestateHeader, sc.traceState)>>
            ELSE <<>>)

\* processGRPCToHTTPTraceHeaders: the error of DecodeString is dropped and the
\* bytes it returned are parsed.
processGRPCToHTTPTraceHeaders(c, traceContext) ==
    LET decoded == DecodeString(traceContext).data
        parsed  == SpanContextFromBinary(decoded)
        sc      == IF parsed.ok THEN parsed.sc ELSE SpanFromContext(c)
    IN SpanContextToHTTPHeaders(sc)

\* A variant that checks the inbound traceparent and emits the ambient span
\* when it is no W3C traceparent.
processHTTPToHTTPTraceHeaders_Validated(c, traceparentValue, traceStateValue) ==
    IF ~SpanContextFromW3CString(traceparentValue).ok
    THEN SpanContextToHTTPHeaders(SpanFromContext(c))
    ELSE <<SetHeader(TraceparentHeader, traceparentValue)>>
             \o (IF traceStateValue # ""
                 THEN <<SetHeader(TracestateHeader, traceStateValue)>>
                 ELSE <<>>)

processHTTPToHTTPTraceHeaders(c, traceparentValue, traceStateValue) ==
    IF traceparentValue = ""
    THEN SpanContextToHTTPHeaders(SpanFromContext(c))
    ELSE <<SetHeader(TraceparentHeader, traceparentValue)>>
             \o (IF traceStateValue # ""
                 THEN <<SetHeader(TracestateHeader, traceStateValue)>>
                 ELSE <<>>)

\* A variant without the mirrored headers: grpc-trace-bin only.
processHTTPToGRPCTraceHeader_NoMirror(c, m, traceparentValue, traceStateValue) ==
    LET parsed == SpanContextFromW3CString(traceparentValue)
        sc     == IF parsed.ok
                  THEN WithTraceState(parsed.sc,
                                      TraceStateFromW3CString(traceStateValue))
                  ELSE SpanFromContext(c)
    IN MDSet(m, GRPCTraceContextKey, <<BinaryFromSpanContext(sc)>>)

processHTTPToGRPCTraceHeader(c, m, traceparentValue, traceStateValue) ==
    LET parsed == SpanContextFromW3CString(traceparentValue)
        sc     == IF parsed.ok
                  THEN WithTraceState(parsed.sc,
                                      TraceStateFromW3CString(traceStateValue))
                  ELSE SpanFromContext(c)
    IN MDSet(MDSetAll(m, SpanContextToHTTPHeaders(sc)),
             GRPCTraceContextKey, <<BinaryFromSpanContext(sc)>>)

processGRPCToGRPCTraceHeader(c, m, grpctracebinValue) ==
    IF grpctracebinValue = ""
    THEN LET sc == SpanFromContext(c)
         IN MDSet(MDSetAll(m, SpanContextToHTTPHeaders(sc)),
                  GRPCTraceContextKey, <<BinaryFromSpanContext(sc)>>)
    ELSE LET dec    == DecodeString(grpctracebinValue)
             parsed == SpanContextFromBinary(dec.data)
         IN IF dec.err THEN m
            ELSE MDSet(IF parsed.ok
                       THEN MDSetAll(m, SpanContextToHTTPHeaders(parsed.sc))
                       ELSE m,
                       GRPCTraceContextKey, <<dec.data>>)

-----------------------------------------------------------------------------
(* The metadata bridge.                                                    *)

\* IsGRPCProtocol indexes the first value of content-type: a run-time panic
\* when the key is there with no values.
IsGRPCProtocolPanics(imd) ==
    Has(imd, ContentTypeHeader) /\ Len(imd[ContentTypeHeader]) = 0

\* A variant that compares the content type in lower case.
IsGRPCProtocol_AnyCase(imd) ==
    LET originContentType ==
            IF Has(imd, ContentTypeHeader) /\ Len(imd[ContentTypeHeader]) > 0
            THEN imd[ContentTypeHeader][1] ELSE ""
    IN HasPrefix(ToLowerFrom(originContentType, 1), GRPCContentType)

\* IsGRPCProtocol checks if metadata is originated from gRPC API.
IsGRPCProtocol(imd) ==
    LET originContentType ==
            IF Has(imd, ContentTypeHeader) /\ Len(imd[ContentTypeHeader]) > 0
            THEN imd[ContentTypeHeader][1] ELSE ""
    IN HasPrefix(originContentType, GRPCContentType)

\* A variant that keeps the colon of a pseudo-header.
ReservedGRPCMetadataToDaprPrefixHeader_KeepsColon(key) ==
    IF key \in {":method", ":scheme", ":path", ":authority"}
    THEN DaprHeaderPrefix \o key
    ELSE IF HasPrefix(key, "grpc-") THEN DaprHeaderPrefix \o key
    ELSE key

ReservedGRPCMetadataToDaprPrefixHeader(key) ==
    IF key \in {":method", ":scheme", ":path", ":authority"}
    THEN DaprHeaderPrefix \o SubSeq(key, 2, Len(key))
    ELSE IF HasPrefix(key, "grpc-") THEN DaprHeaderPrefix \o key
    ELSE key

RECURSIVE AppendDecoded_KeepsInvalid(_, _, _)
\* A variant that appends a value that does not decode as it is.
AppendDecoded_KeepsInvalid(m, keyName, vals) ==
    IF Len(vals) = 0 THEN m
    ELSE LET dec == DecodeString(Head(vals))
         IN AppendDecoded_KeepsInvalid(
                MDAppend(m, keyName, <<IF dec.err THEN Head(vals) ELSE dec.data>>),
                keyName, Tail(vals))

RECURSIVE AppendDecoded(_, _, _)
\* The loop over the values of a key with the binary suffix: each value that
\* decodes is appended, decoded; the others are skipped.
AppendDecoded(m, keyName, vals) ==
    IF Len(vals) = 0 THEN m
    ELSE LET dec == DecodeString(Head(vals))
         IN AppendDecoded(IF dec.err THEN m ELSE MDAppend(m, keyName, <<dec.data>>),
                          keyName, Tail(vals))

\* The local variables of InternalMetadataToGrpcMetadata before its loop.
GrpcLoopStart ==
    [traceparentValue |-> "", tracestateValue |-> "",
     grpctracebinValue |-> "", md |-> EmptyMD, panicked |-> FALSE]

\* One round of the loop of InternalMetadataToGrpcMetadata, for key k.
GrpcLoopBody(st, k, listVal, conv) ==
    LET keyName == ToLower(k)
        isTrace == keyName \in {TraceparentHeader, TracestateHeader,
                                GRPCTraceContextKey}
        outName == IF conv /\ isPermanentHTTPHeader(k)
                   THEN DaprHeaderPrefix \o keyName ELSE keyName
    IN IF isTrace /\ Len(listVal) = 0
       THEN [st EXCEPT !.panicked = TRUE]   \* GetValues()[0]: index out of range
       ELSE CASE keyName = TraceparentHeader ->
                     [st EXCEPT !.traceparentValue = listVal[1]]
              [] keyName = TracestateHeader ->
                     [st EXCEPT !.tracestateValue = listVal[1]]
              [] keyName = GRPCTraceContextKey ->
                     [st EXCEPT !.grpctracebinValue = listVal[1]]
              [] keyName = DestinationIDHeader -> st
              [] OTHER ->
                     IF HasSuffix(k, gRPCBinaryMetadataSuffix)
                     THEN [st EXCEPT !.md = AppendDecoded(st.md, outName, listVal)]
                     ELSE [st EXCEPT !.md = MDAppend(st.md, outName, listVal)]

RECURSIVE GrpcLoop(_, _, _, _)
\* The loop of InternalMetadataToGrpcMetadata over the keys in the order the
\* range statement visits them.
GrpcLoop(st, imd, order, conv) ==
    IF Len(order) = 0 \/ st.panicked THEN st
    ELSE GrpcLoop(GrpcLoopBody(st, Head(order), imd[Head(order)], conv),
                  imd, Tail(order), conv)

\* InternalMetadataToGrpcMetadata converts internal metadata map to gRPC
\* metadata.  The result: the metadata, or a panic.
InternalMetadataToGrpcMetadata(c, imd, conv, order) ==
    LET st == GrpcLoop(GrpcLoopStart, imd, order, conv)
    IN IF st.panicked \/ IsGRPCProtocolPanics(imd)
       THEN [md |-> EmptyMD, panicked |-> TRUE]
       ELSE [md |-> IF IsGRPCProtocol(imd)
                    THEN processGRPCToGRPCTraceHeader(c, st.md, st.grpctracebinValue)
                    ELSE processHTTPToGRPCTraceHeader(c, st.md, st.traceparentValue,
                                                      st.tracestateValue),
             panicked |-> FALSE]

\* The local variables of InternalMetadataToHTTPHeader before its loop, and
\* the setHeader calls made so far.
HTTPLoopStart ==
    [traceparentValue |-> "", tracestateValue |-> "",
     grpctracebinValue |-> "", calls |-> <<>>]

\* A variant that tests the binary suffix on the key as given, as the loop of
\* InternalMetadataToGrpcMetadata does.
HTTPLoopBody_SuffixOfKey(st, k, listVal) ==
    LET keyName == ToLower(k)
    IN IF Len(listVal) = 0 THEN st
       ELSE CASE keyName = TraceparentHeader ->
                     [st EXCEPT !.traceparentValue = listVal[1]]
              [] keyName = TracestateHeader ->
                     [st EXCEPT !.tracestateValue = listVal[1]]
              [] keyName = GRPCTraceContextKey ->
                     [st EXCEPT !.grpctracebinValue = listVal[1]]
              [] keyName = DestinationIDHeader -> st
              [] keyName = BaggageHeader ->
                     [st EXCEPT !.calls = @ \o <<SetHeader(BaggageHeader, listVal[1])>>]
              [] OTHER ->
                     IF \/ HasSuffix(k, gRPCBinaryMetadataSuffix)
                        \/ keyName = ContentTypeHeader
                     THEN st
                     ELSE [st EXCEPT !.calls = @ \o
                              [i \in 1..Len(listVal) |->
                                  SetHeader(ReservedGRPCMetadataToDaprPrefixHeader(keyName),
                                            listVal[i])]]

\* One round of the loop of InternalMetadataToHTTPHeader, for key k.
HTTPLoopBody(st, k, listVal) ==
    LET keyName == ToLower(k)
    IN IF Len(listVal) = 0 THEN st
       ELSE CASE keyName = TraceparentHeader ->
                     [st EXCEPT !.traceparentValue = listVal[1]]
              [] keyName = TracestateHeader ->
                     [st EXCEPT !.tracestateValue = listVal[1]]
              [] keyName = GRPCTraceContextKey ->
                     [st EXCEPT !.grpctracebinValue = listVal[1]]
              [] keyName = DestinationIDHeader -> st
              [] keyName = BaggageHeader ->
                     [st EXCEPT !.calls = @ \o <<SetHeader(BaggageHeader, listVal[1])>>]
              [] OTHER ->
                     IF \/ HasSuffix(keyName, gRPCBinaryMetadataSuffix)
                        \/ keyName = ContentTypeHeader
                     THEN st
                     ELSE [st EXCEPT !.calls = @ \o
                              [i \in 1..Len(listVal) |->
                                  SetHeader(ReservedGRPCMetadataToDaprPrefixHeader(keyName),
                                            listVal[i])]]

RECURSIVE HTTPLoop(_, _, _)
HTTPLoop(st, imd, order) ==
    IF Len(order) = 0 THEN st
    ELSE HTTPLoop(HTTPLoopBody(st, Head(order), imd[Head(order)]), imd, Tail(order))

\* InternalMetadataToHTTPHeader converts internal metadata pb to HTTP headers.
\* The result: the setHeader calls made, and whether the call panicked.
InternalMetadataToHTTPHeader(c, imd, order) ==
    LET st == HTTPLoop(HTTPLoopStart, imd, order)
    IN IF IsGRPCProtocolPanics(imd)
       THEN [headers |-> st.calls, panicked |-> TRUE]
       ELSE [headers |-> st.calls \o
                 (IF IsGRPCProtocol(imd)
                  THEN processGRPCToHTTPTraceHeaders(c, st.grpctracebinValue)
                  ELSE processHTTPToHTTPTraceHeaders(c, st.traceparentValue,
                                                     st.tracestateValue)),
             panicked |-> FALSE]

-----------------------------------------------------------------------------
(* The recorder of gRPC metrics, grpcMetrics (pkg/diagnostics).            *)

\* Tag keys.
appIDKey        == "app_id"
KeyServerMethod == "grpc_server_method"
KeyServerStatus == "grpc_server_status"
KeyClientMethod == "grpc_client_method"
KeyClientStatus == "grpc_client_status"

appHealthCheckMethod == "/dapr.proto.runtime.v1.AppCallbackHealthCheck/HealthCheck"
GRPCProxyAppIDKey    == "dapr-app-id"

\* The measures of newGRPCMetrics, by their names.
serverReceivedBytes         == "grpc.io/server/received_bytes_per_rpc"
serverSentBytes             == "grpc.io/server/sent_bytes_per_rpc"
serverLatency               == "grpc.io/server/server_latency"
serverCompletedRpcs         == "grpc.io/server/completed_rpcs"
clientSentBytes             == "grpc.io/client/sent_bytes_per_rpc"
clientReceivedBytes         == "grpc.io/client/received_bytes_per_rpc"
clientRoundtripLatency      == "grpc.io/client/roundtrip_latency"
clientCompletedRpcs         == "grpc.io/client/completed_rpcs"
healthProbeCompletedCount   == "grpc.io/healthprobes/completed_count"
healthProbeRoundtripLatency == "grpc.io/healthprobes/roundtrip_latency"

\* The value of the meter field before Init sets it.
NoMeter == "nil"

\* A nil *grpcMetrics.
NilRecorder == [nil |-> TRUE, appID |-> "", enabled |-> FALSE, meter |-> NoMeter]

\* newGRPCMetrics(): the measures are fixed, the recorder is not enabled.
newGRPCMetrics == [nil |-> FALSE, appID |-> "", enabled |-> FALSE, meter |-> NoMeter]

\* A variant that tests the receiver only.
IsEnabled_ReceiverOnly(gv) == ~gv.nil

IsEnabled(gv) == ~gv.nil /\ gv.enabled

\* The clock counts half milliseconds; a time.Duration is a number of them.
Millisecond == 2

\* float64(time.Since(start) / time.Millisecond): whole milliseconds.
Elapsed(start, t) == (t - start) \div Millisecond

\* An error a handler returns: nil, an error that holds a gRPC status, or
\* another error.
ErrNil == [nil |-> TRUE, hasStatus |-> FALSE, code |-> OK, message |-> ""]
StatusError(c, msg) == [nil |-> FALSE, hasStatus |-> TRUE, code |-> c, message |-> msg]
PlainError(msg) == [nil |-> FALSE, hasStatus |-> FALSE, code |-> OK, message |-> msg]

\* A variant that gives OK for an error that holds no status.
StatusCode_PlainIsOK(err) ==
    IF err.nil THEN OK ELSE IF err.hasStatus THEN err.code ELSE OK

\* status.Code(err): OK for nil, the code of the status the error holds,
\* Unknown for an error that holds none.
StatusCode(err) ==
    IF err.nil THEN OK ELSE IF err.hasStatus THEN err.code ELSE Unknown

\* codes.Code.String().
CodeString(c) ==
    CASE c = OK -> "OK"
      [] c = Canceled -> "Canceled"
      [] c = Unknown -> "Unknown"
      [] c = InvalidArgument -> "InvalidArgument"
      [] c = DeadlineExceeded -> "DeadlineExceeded"
      [] c = NotFound -> "NotFound"
      [] c = AlreadyExists -> "AlreadyExists"
      [] c = PermissionDenied -> "PermissionDenied"
      [] c = ResourceExhausted -> "ResourceExhausted"
      [] c = FailedPrecondition -> "FailedPrecondition"
      [] c = Aborted -> "Aborted"
      [] c = OutOfRange -> "OutOfRange"
      [] c = Unimplemented -> "Unimplemented"
      [] c = Internal -> "Internal"
      [] c = Unavailable -> "Unavailable"
      [] c = DataLoss -> "DataLoss"
      [] c = Unauthenticated -> "Unauthenticated"
      [] OTHER -> "Code(" \o Itoa(c) \o ")"

\* A payload is a proto.Message, kept as its size; NilPayload is the nil a
\* handler returns beside an error.
Payload(n) == [nil |-> FALSE, size |-> n]
NilPayload == [nil |-> TRUE, size |-> 0]

\* getPayloadSize: proto.Size of the message.
getPayloadSize(payload) == payload.size

\* diagUtils.WithTags(name, key, value, ...): the tags, as key/value pairs.
WithTags(pairs) == pairs

\* One stats.RecordWithOptions: the measurement m.M(v) with its tags, through
\* the recorder's meter.
Measurement(gv, m, tags, v) ==
    [measure |-> m, tags |-> WithTags(tags), value |-> v, meter |-> gv.meter]

\* The RecordWithOptions calls of ServerRequestSent, in order, after its guard.
ServerRequestSent(gv, method, status, reqContentSize, resContentSize, elapsed) ==
    << Measurement(gv, serverCompletedRpcs,
           << <<appIDKey, gv.appID>>, <<KeyServerMethod, method>>,
              <<KeyServerStatus, status>> >>, 1),
       Measurement(gv, serverReceivedBytes,
           << <<appIDKey, gv.appID>>, <<KeyServerMethod, method>> >>, reqContentSize),
       Measurement(gv, serverSentBytes,
           << <<appIDKey, gv.appID>>, <<KeyServerMethod, method>> >>, resContentSize),
       Measurement(gv, serverLatency,
           << <<appIDKey, gv.appID>>, <<KeyServerMethod, method>>,
              <<KeyServerStatus, status>> >>, elapsed) >>

\* The RecordWithOptions calls of StreamServerRequestSent.
StreamServerRequestSent(gv, method, status, elapsed) ==
    << Measurement(gv, serverCompletedRpcs,
           << <<appIDKey, gv.appID>>, <<KeyServerMethod, method>>,
              <<KeyServerStatus, status>> >>, 1),
       Measurement(gv, serverLatency,
           << <<appIDKey, gv.appID>>, <<KeyServerMethod, method>>,
              <<KeyServerStatus, status>> >>, elapsed) >>

\* The RecordWithOptions calls of StreamClientRequestSent.
StreamClientRequestSent(gv, method, status, elapsed) ==
    << Measurement(gv, clientCompletedRpcs,
           << <<appIDKey, gv.appID>>, <<KeyClientMethod, method>>,
              <<KeyClientStatus, status>> >>, 1),
       Measurement(gv, clientRoundtripLatency,
           << <<appIDKey, gv.appID>>, <<KeyClientMethod, method>>,
              <<KeyClientStatus, status>> >>, elapsed) >>

\* The RecordWithOptions calls of ClientRequestReceived.
ClientRequestReceived(gv, method, status, reqContentSize, resContentSize, elapsed) ==
    << Measurement(gv, clientCompletedRpcs,
           << <<appIDKey, gv.appID>>, <<KeyClientMethod, method>>,
              <<KeyClientStatus, status>> >>, 1),
       Measurement(gv, clientRoundtripLatency,
           << <<appIDKey, gv.appID>>, <<KeyClientMethod, method>>,
              <<KeyClientStatus, status>> >>, elapsed),
       Measurement(gv, clientSentBytes,
           << <<appIDKey, gv.appID>>, <<KeyClientMethod, method>> >>, reqContentSize),
       Measurement(gv, clientReceivedBytes,
           << <<appIDKey, gv.appID>>, <<KeyClientMethod, method>> >>, resContentSize) >>

\* The RecordWithOptions calls of AppHealthProbeCompleted.
AppHealthProbeCompleted(gv, status, elapsed) ==
    << Measurement(gv, healthProbeCompletedCount,
           << <<appIDKey, gv.appID>>, <<KeyClientStatus, status>> >>, 1),
       Measurement(gv, healthProbeRoundtripLatency,
           << <<appIDKey, gv.appID>>, <<KeyClientStatus, status>> >>, elapsed) >>

\* The RecordWithOptions calls of a recording operation, by its name.
\* call: the operation and its arguments.
Recorded(gv, call, elapsed) ==
    CASE call.op = "ServerRequestSent" ->
             ServerRequestSent(gv, call.method, call.status, call.reqContentSize,
                               call.resContentSize, elapsed)
      [] call.op = "StreamServerRequestSent" ->
             StreamServerRequestSent(gv, call.method, call.status, elapsed)
      [] call.op = "StreamClientRequestSent" ->
             StreamClientRequestSent(gv, call.method, call.status, elapsed)
      [] call.op = "ClientRequestReceived" ->
             ClientRequestReceived(gv, call.method, call.status, call.reqContentSize,
                                   call.resContentSize, elapsed)
      [] call.op = "AppHealthProbeCompleted" ->
             AppHealthProbeCompleted(gv, call.status, elapsed)

\* A call of a recording operation.
RecordingCall(name, method, status, reqContentSize, resContentSize) ==
    [op |-> name, method |-> method, status |-> status,
     reqContentSize |-> reqContentSize, resContentSize |-> resContentSize]

\* A variant that records every call as OK.
UnaryServerInterceptor_AlwaysOK(info, req, resp, err) ==
    LET size == IF err.nil THEN getPayloadSize(resp) ELSE 0
    IN RecordingCall("ServerRequestSent", info, CodeString(OK),
                     getPayloadSize(req), size)

\* UnaryServerInterceptor after the handler returned (resp, err): the call of
\* ServerRequestSent it makes.
UnaryServerInterceptor(info, req, resp, err) ==
    LET size == IF err.nil THEN getPayloadSize(resp) ELSE 0
    IN RecordingCall("ServerRequestSent", info, CodeString(StatusCode(err)),
                     getPayloadSize(req), size)

\* A variant that records a health probe as any other client call.
UnaryClientInterceptor_ProbeAsCall(method, req, reply, err) ==
    LET resSize == IF err.nil THEN getPayloadSize(reply) ELSE 0
    IN RecordingCall("ClientRequestReceived", method, CodeString(StatusCode(err)),
                     getPayloadSize(req), resSize)

\* UnaryClientInterceptor after the invoker returned err: the call of
\* AppHealthProbeCompleted or of ClientRequestReceived it makes.
UnaryClientInterceptor(method, req, reply, err) ==
    LET resSize == IF err.nil THEN getPayloadSize(reply) ELSE 0
    IN IF method = appHealthCheckMethod
       THEN RecordingCall("AppHealthProbeCompleted", "", CodeString(StatusCode(err)), 0, 0)
       ELSE RecordingCall("ClientRequestReceived", method, CodeString(StatusCode(err)),
                          getPayloadSize(req), resSize)

\* A variant that tests the presence of the key only.
NotProxied_KeyOnly(incoming) == ~Has(incoming, GRPCProxyAppIDKey)

\* The test of the streaming interceptors on the incoming metadata: no
\* dapr-app-id, or no value for it.
NotProxied(incoming) ==
    ~Has(incoming, GRPCProxyAppIDKey) \/ Len(incoming[GRPCProxyAppIDKey]) = 0

\* StreamingServerInterceptor after the handler returned err: the call of
\* StreamServerRequestSent it makes.
StreamingServerInterceptor(info, err) ==
    RecordingCall("StreamServerRequestSent", info, CodeString(StatusCode(err)), 0, 0)

\* StreamingClientInterceptor after the handler returned err: the call of
\* StreamClientRequestSent it makes.
StreamingClientInterceptor(info, err) ==
    RecordingCall("StreamClientRequestSent", info, CodeString(StatusCode(err)), 0, 0)

Interceptors ==
    {"UnaryServerInterceptor", "UnaryClientInterceptor",
     "StreamingServerInterceptor", "StreamingClientInterceptor"}
StreamInterceptors == {"StreamingServerInterceptor", "StreamingClientInterceptor"}
RecordingOps ==
    {"ServerRequestSent", "StreamServerRequestSent", "StreamClientRequestSent",
     "ClientRequestReceived", "AppHealthProbeCompleted"}

\* A variant where the method is kept in one place for all the calls in
\* progress, written by whichever started last.
InterceptorRecords_SharedMethod(r, resp, err) ==
    LET last == CHOOSE c \in DOMAIN rpc :
                    \A d \in DOMAIN rpc : rpc[d].start <= rpc[c].start
        method == rpc[last].method
    IN CASE r.role = "UnaryServerInterceptor" ->
                UnaryServerInterceptor(method, r.req, resp, err)
         [] r.role = "UnaryClientInterceptor" ->
                UnaryClientInterceptor(method, r.req, resp, err)
         [] r.role = "StreamingServerInterceptor" ->
                StreamingServerInterceptor(method, err)
         [] r.role = "StreamingClientInterceptor" ->
                StreamingClientInterceptor(method, err)

\* The call of a recording operation an interceptor makes after its handler
\* returned.
InterceptorRecords(r, resp, err) ==
    CASE r.role = "UnaryServerInterceptor" ->
             UnaryServerInterceptor(r.method, r.req, resp, err)
      [] r.role = "UnaryClientInterceptor" ->
             UnaryClientInterceptor(r.method, r.req, resp, err)
      [] r.role = "StreamingServerInterceptor" ->
             StreamingServerInterceptor(r.method, err)
      [] r.role = "StreamingClientInterceptor" ->
             StreamingClientInterceptor(r.method, err)

-----------------------------------------------------------------------------
(* The arguments the calls are made with.                                  *)

\* Two ambient spans, the second with a trace-state.
AmbientA ==
    [span |-> SpanContext("11111111111111111111111111111111",
                          "2222222222222222", 1, "")]
AmbientB ==
    [span |-> SpanContext("a1a2a3a4a5a6a7a8a9aaabacadaeafa0",
                          "b1b2b3b4b5b6b7b8", 0, "amb=1")]
Contexts == {AmbientA, AmbientB}

\* The context of calls that take none.
NoContext == [span |-> NoSpanContext]

\* Inbound traceparent values: two well-formed ones, one of a later version,
\* one without its flags field, one that is no traceparent at all.
TraceparentA     == "00-0af7651916cd43dd8448eb211c80319c-b7ad6b7169203331-01"
TraceparentB     == "00-4bf92f3577b34da6a3ce929d0e0e4736-00f067aa0ba902b7-00"
TraceparentV1    == "01-0af7651916cd43dd8448eb211c80319c-b7ad6b7169203331-01"
TraceparentShort == "00-0af7651916cd43dd8448eb211c80319c-b7ad6b7169203331"
TraceparentJunk  == "not-a-traceparent"

TracestateA    == "congo=t61rcWkgMzE"
TracestateB    == "rojo=00f067aa0ba902b7"
TracestateJunk == "junk"

\* Inbound grpc-trace-bin values: the base64 text of the binary form of the
\* span contexts of TraceparentA and TraceparentB; base64 text of bytes that
\* are no span context; text that is not base64; and a well-formed token
\* followed by a byte that is not base64.
SpanContextA == SpanContextFromW3CString(TraceparentA).sc
SpanContextB == SpanContextFromW3CString(TraceparentB).sc
TraceBinA        == EncodeToString(BinaryFromSpanContext(SpanContextA))
TraceBinB        == EncodeToString(BinaryFromSpanContext(SpanContextB))
TraceBinNoSpan   == EncodeToString("hello")
TraceBinNotB64   == "!!not base64!!"
TraceBinTrailing == TraceBinA \o "!"

\* The value lists a key of an internal metadata map may hold.
ValueLists(k) ==
    CASE k = "content-type" ->
             {<<JSONContentType>>, <<GRPCContentType>>, <<>>}
      [] k = "traceparent" ->
             {<<TraceparentA>>, <<TraceparentB, TraceparentA>>, <<TraceparentV1>>,
              <<TraceparentShort>>, <<TraceparentJunk>>, <<"">>, <<>>}
      [] k = "Traceparent" ->
             {<<TraceparentB>>, <<"">>}
      [] k = "tracestate" ->
             {<<TracestateA>>, <<TracestateB, TracestateA>>, <<TracestateJunk>>,
              <<"">>}
      [] k = "grpc-trace-bin" ->
             {<<TraceBinA>>, <<TraceBinB, TraceBinA>>, <<TraceBinNoSpan>>,
              <<TraceBinNotB64>>, <<TraceBinTrailing>>, <<"">>}
      [] OTHER -> {<<"v1">>, <<"v1", "v2">>}

RECURSIVE MapsOver(_)
\* The maps with exactly the keys S, each with one of its value lists.
MapsOver(S) ==
    IF S = {} THEN {EmptyMD}
    ELSE LET k == CHOOSE x \in S : TRUE
         IN {(k :> v) @@ m : v \in ValueLists(k), m \in MapsOver(S \ {k})}

\* The maps with at most MaxKeys keys, all of them in keys.
InternalMDs(keys) ==
    UNION {MapsOver(S) : S \in {T \in SUBSET keys : Cardinality(T) <= MaxKeys}}

RECURSIVE Orders(_)
\* The orders a range statement may visit the keys S in.
Orders(S) ==
    IF S = {} THEN {<<>>}
    ELSE UNION {{<<k>> \o o : o \in Orders(S \ {k})} : k \in S}

RECURSIVE MapsOverWith(_, _)
\* The maps with exactly the keys S, each with one of the value lists lists
\* gives it.
MapsOverWith(S, lists) ==
    IF S = {} THEN {EmptyMD}
    ELSE LET k == CHOOSE x \in S : TRUE
         IN {(k :> v) @@ m : v \in lists[k], m \in MapsOverWith(S \ {k}, lists)}

\* The maps with at most MaxKeys keys, all of them in DOMAIN lists.
InternalMDsWith(lists) ==
    UNION {MapsOverWith(S, lists) :
               S \in {T \in SUBSET DOMAIN lists : Cardinality(T) <= MaxKeys}}

\* The maps IsGRPCProtocol is checked on: content types that are and are not
\* the gRPC one, under the key in lower case and in canonical capitalization,
\* beside an inbound traceparent and an inbound grpc-trace-bin.
ProtocolValueLists ==
    [k \in ProtocolKeys |->
        CASE k = "content-type" ->
                 {<<GRPCContentType>>, <<"application/grpc+proto", JSONContentType>>,
                  <<JSONContentType, GRPCContentType>>, <<"Application/GRPC">>,
                  <<"">>, <<>>}
          [] k = "Content-Type" -> {<<GRPCContentType>>}
          [] k = "traceparent" -> {<<TraceparentA>>}
          [] k = "grpc-trace-bin" -> {<<TraceBinB>>}]

\* Binary values, and text that is not base64.
BinText  == "hello"
BinBytes == "%00%ff%10binary"
NotB64A  == "not base64!"
NotB64B  == "a"

\* The maps the copying of InternalMetadataToGrpcMetadata is checked on:
\* permanent HTTP headers in canonical capitalization and in lower case, a
\* binary key with values that decode and values that do not, the same key
\* capitalized, an ordinary key, and the destination key.
GrpcMDValueLists ==
    [k \in GrpcMDKeys |->
        CASE k = "Accept" -> {<<"text/html">>, <<"text/html", "*/*">>}
          [] k = "accept" -> {<<"application/xml">>}
          [] k = "Content-Type" -> {<<JSONContentType>>}
          [] k = "user-bin" ->
                 {<<EncodeToString(BinText)>>,
                  <<EncodeToString(BinBytes), NotB64A, EncodeToString(BinText)>>,
                  <<NotB64A, NotB64B>>, <<NotB64B>>}
          [] k = "User-Bin" -> {<<EncodeToString(BinText)>>}
          [] k = "x-request-id" -> {<<"v1", "v2">>, <<"v2">>, <<>>}
          [] k = "destination-app-id" -> {<<"app-1">>}]

\* The maps the copying of InternalMetadataToHTTPHeader is checked on: keys
\* that are dropped, in lower case and capitalized, the baggage key, an
\* ordinary key, and keys without values.
HTTPHeaderValueLists ==
    [k \in HTTPHeaderKeys |->
        CASE k = "content-type" -> {<<JSONContentType>>, <<GRPCContentType>>, <<>>}
          [] k = "Content-Type" -> {<<JSONContentType>>}
          [] k = "traceparent" -> {<<TraceparentA>>, <<>>}
          [] k = "x-request-id" -> {<<"v1", "v2", "v1">>, <<>>}
          [] k = "baggage" -> {<<"k1=v1", "k2=v2">>}
          [] k = "Baggage" -> {<<"k3=v3">>}
          [] k = "destination-app-id" -> {<<"app-1">>}
          [] k = "Destination-App-Id" -> {<<"app-2">>}
          [] k = "user-bin" -> {<<EncodeToString(BinText)>>}
          [] k = "User-Bin" -> {<<NotB64A>>}]

\* The maps the renaming of reserved keys is checked on: the four
\* pseudo-headers, keys with the grpc- prefix in lower case and capitalized, a
\* key that already has the dapr- prefix and an ordinary key.
ReservedValueLists ==
    [k \in ReservedKeys |->
        CASE k = ":method" -> {<<"POST">>}
          [] k = ":scheme" -> {<<"http">>}
          [] k = ":path" -> {<<"/v1.0/invoke">>}
          [] k = ":authority" -> {<<"localhost", "127.0.0.1">>}
          [] k = "grpc-timeout" -> {<<"1S">>, <<>>}
          [] k = "Grpc-Encoding" -> {<<"gzip", "identity">>}
          [] k = "dapr-method" -> {<<"GET">>}
          [] k = "X-Request-Id" -> {<<"v1">>}]

\* The maps with keys that differ only in letter case.
CaseValueLists ==
    [k \in CaseKeys |->
        CASE k = "Foo" -> {<<"a">>}
          [] k = "foo" -> {<<"b">>, <<"a">>}
          [] k = "Traceparent" -> {<<TraceparentA>>}
          [] k = "traceparent" -> {<<TraceparentB>>, <<TraceparentA>>}]

\* Detail strings: letters, of the lengths around the limit; one whose 63rd
\* and 64th bytes are the two bytes of one character; one of 63 characters
\* in 64 bytes; one that is not UTF-8.
Letters(n) == Str([i \in 1..n |-> 97 + (i % 26)])
Details ==
    {Letters(n) : n \in {0, 1, maxMetadataValueLen - 1, maxMetadataValueLen,
                         maxMetadataValueLen + 1, MaxDetailLen}}
        \cup {Letters(maxMetadataValueLen - 1) \o "%c3%a9" \o Letters(3),
              "%c3%a9" \o Letters(maxMetadataValueLen - 1),
              "a%ffb"}

HTTPStatusCodes == (0 - NegHTTPStatus)..MaxHTTPStatus
Codes == 0..MaxCode

\* The recorder Init has returned from without an error.
InitAppID == "app-1"
InitMeter == "meter"
Initialized ==
    [nil |-> FALSE, appID |-> InitAppID, enabled |-> TRUE, meter |-> InitMeter]

\* The call of g.Init: not made, or at its start.
NoInitCall    == [pc |-> "none", written |-> {}, err |-> ""]
InitCallStart == [pc |-> "running", written |-> {}, err |-> ""]
InitCallDone  == [pc |-> "done", written |-> {"appID", "enabled", "meter"}, err |-> ""]
RegisterError == "cannot register views"

\* The record of one call: the arguments, the position in the interceptor or
\* recording operation, the locals, and what the call did so far.
NoRecordingCall == RecordingCall("", "", "", 0, 0)
NewCall(role, method, req, incoming) ==
    [role |-> role, method |-> method, req |-> req, incoming |-> incoming,
     pc |-> "start", start |-> 0, bypass |-> FALSE, err |-> ErrNil,
     resp |-> NilPayload, call |-> NoRecordingCall, elapsed |-> 0, next |-> 0,
     events |-> <<>>, ret |-> ErrNil]

\* A recording operation called directly, with start the time 0.
DirectCall(call) ==
    [NewCall(call.op, call.method, NilPayload, EmptyMD) EXCEPT
        !.pc = "record", !.call = call]

EchoMethod == "/svc.v1.Echo/Say"
HearMethod == "/svc.v1.Echo/Hear"
Methods == {EchoMethod, appHealthCheckMethod}
Requests == {Payload(0), Payload(5)}
Replies == {Payload(0), Payload(7)}
HandlerErrors == {ErrNil, StatusError(NotFound, "no such app"), PlainError("EOF")}
IncomingMDs ==
    {EmptyMD, (GRPCProxyAppIDKey :> <<>>), (GRPCProxyAppIDKey :> <<"app-2">>)}

\* The calls through the interceptors.
InterceptorCalls ==
    {NewCall(role, m, req, EmptyMD) :
        role \in Interceptors \ StreamInterceptors, m \in Methods, req \in Requests}
    \cup {NewCall(role, m, NilPayload, incoming) :
        role \in StreamInterceptors, m \in Methods, incoming \in IncomingMDs}

\* The direct calls of the recording operations.
DirectCalls ==
    {DirectCall(RecordingCall(name, EchoMethod, status, 5, 7)) :
        name \in RecordingOps, status \in {"OK", "NotFound"}}

\* The calls that run concurrently.
CallIds == {"c1", "c2"}
ConcurrentCalls ==
    {NewCall("UnaryServerInterceptor", EchoMethod, Payload(5), EmptyMD),
     NewCall("UnaryClientInterceptor", appHealthCheckMethod, Payload(0), EmptyMD),
     NewCall("StreamingServerInterceptor", EchoMethod, NilPayload,
             (GRPCProxyAppIDKey :> <<"app-2">>)),
     NewCall("StreamingClientInterceptor", HearMethod, NilPayload, EmptyMD)}

-----------------------------------------------------------------------------
(* The state machine: one call.                                            *)

NoBridgeCall ==
    /\ ctx = NoContext /\ internalMD = EmptyMD /\ httpHeaderConversion = FALSE

\* The internal statuses: the defined and the undefined codes, with and
\* without a message, with no, one and two details.
Messages == {"", "boom"}
DetailLists == {<<>>, <<"detail-1">>, <<"detail-1", "detail-2">>,
                <<"detail-2", "detail-1">>}
InternalStatuses ==
    {Status(c, m, d) : c \in Codes, m \in Messages, d \in DetailLists}
NoStatus == Status(OK, "", <<>>)

NoStatusCall ==
    /\ httpStatusCode = 0 /\ detail = "" /\ code = OK /\ internalStatus = NoStatus

NoResult ==
    /\ md = EmptyMD /\ headers = <<>> /\ panicked = FALSE
    /\ retCode = 0 /\ retErr = NilError /\ retBool = FALSE

\* The recorder is not part of the call.
NoRecorder ==
    /\ g = NilRecorder /\ initCall = NoInitCall /\ rpc = EmptyMD
    /\ measurements = {} /\ errorCodes = <<>> /\ now = 0

\* A call of a function of the status/code translator is about to be made.
InitStatus ==
    /\ pc = "start"
    /\ op \in {"CodeFromHTTPStatus", "HTTPStatusFromCode", "ErrorFromHTTPResponseCode",
               "ErrorFromInternalStatus"}
    /\ httpStatusCode \in
           (IF op \in {"CodeFromHTTPStatus", "ErrorFromHTTPResponseCode"}
            THEN HTTPStatusCodes ELSE {0})
    /\ detail \in (IF op = "ErrorFromHTTPResponseCode" THEN Details ELSE {""})
    /\ code \in (IF op = "HTTPStatusFromCode" THEN Codes ELSE {OK})
    /\ internalStatus \in
           (IF op = "ErrorFromInternalStatus" THEN InternalStatuses ELSE {NoStatus})
    /\ NoBridgeCall /\ NoResult /\ NoRecorder

\* A call of one of the two bridges is about to be made, on a map of trace keys.
InitTrace ==
    /\ pc = "start"
    /\ op \in {"InternalMetadataToGrpcMetadata", "InternalMetadataToHTTPHeader"}
    /\ ctx \in Contexts
    /\ internalMD \in InternalMDs(TraceKeys)
    /\ httpHeaderConversion \in
           (IF op = "InternalMetadataToGrpcMetadata" THEN BOOLEAN ELSE {FALSE})
    /\ NoStatusCall /\ NoResult /\ NoRecorder

\* A call of IsGRPCProtocol or of one of the two bridges is about to be made,
\* on a map with a content type.
InitProtocol ==
    /\ pc = "start"
    /\ op \in {"IsGRPCProtocol", "InternalMetadataToGrpcMetadata",
               "InternalMetadataToHTTPHeader"}
    /\ ctx \in (IF op = "IsGRPCProtocol" THEN {NoContext} ELSE Contexts)
    /\ internalMD \in InternalMDsWith(ProtocolValueLists)
    /\ httpHeaderConversion \in
           (IF op = "InternalMetadataToGrpcMetadata" THEN BOOLEAN ELSE {FALSE})
    /\ NoStatusCall /\ NoResult /\ NoRecorder

\* A call of InternalMetadataToGrpcMetadata is about to be made, on a map of
\* keys that are copied.
InitGrpcMD ==
    /\ pc = "start"
    /\ op = "InternalMetadataToGrpcMetadata"
    /\ ctx \in Contexts
    /\ internalMD \in InternalMDsWith(GrpcMDValueLists)
    /\ httpHeaderConversion \in BOOLEAN
    /\ NoStatusCall /\ NoResult /\ NoRecorder

\* A call of InternalMetadataToHTTPHeader is about to be made, on a map of
\* keys that are copied or dropped.
InitHTTPHeader ==
    /\ pc = "start"
    /\ op = "InternalMetadataToHTTPHeader"
    /\ ctx \in Contexts
    /\ internalMD \in InternalMDsWith(HTTPHeaderValueLists)
    /\ httpHeaderConversion = FALSE
    /\ NoStatusCall /\ NoResult /\ NoRecorder

\* A call of InternalMetadataToHTTPHeader is about to be made, on a map of
\* reserved keys.
InitReserved ==
    /\ pc = "start"
    /\ op = "InternalMetadataToHTTPHeader"
    /\ ctx \in Contexts
    /\ internalMD \in InternalMDsWith(ReservedValueLists)
    /\ httpHeaderConversion = FALSE
    /\ NoStatusCall /\ NoResult /\ NoRecorder

\* A call of a bridge is about to be made, on a map with keys that differ
\* only in letter case.
InitCase ==
    /\ pc = "start"
    /\ op \in {"InternalMetadataToGrpcMetadata", "InternalMetadataToHTTPHeader"}
    /\ ctx \in Contexts
    /\ internalMD \in InternalMDsWith(CaseValueLists)
    /\ httpHeaderConversion \in
           (IF op = "InternalMetadataToGrpcMetadata" THEN BOOLEAN ELSE {FALSE})
    /\ NoStatusCall /\ NoResult /\ NoRecorder


CallCodeFromHTTPStatus ==
    /\ pc = "start" /\ op = "CodeFromHTTPStatus"
    /\ retCode' = CodeFromHTTPStatus(httpStatusCode)
    /\ pc' = "done"
    /\ UNCHANGED recorderVars
    /\ UNCHANGED <<op, bridgeVars, httpStatusCode, detail, code, internalStatus, retErr,
                   retBool>>

CallHTTPStatusFromCode ==
    /\ pc = "start" /\ op = "HTTPStatusFromCode"
    /\ retCode' = HTTPStatusFromCode(code)
    /\ pc' = "done"
    /\ UNCHANGED recorderVars
    /\ UNCHANGED <<op, bridgeVars, httpStatusCode, detail, code, internalStatus, retErr,
                   retBool>>

CallErrorFromHTTPResponseCode ==
    /\ pc = "start" /\ op = "ErrorFromHTTPResponseCode"
    /\ retErr' = ErrorFromHTTPResponseCode(httpStatusCode, detail)
    /\ pc' = "done"
    /\ UNCHANGED recorderVars
    /\ UNCHANGED <<op, bridgeVars, httpStatusCode, detail, code, internalStatus, retCode,
                   retBool>>

CallErrorFromInternalStatus ==
    /\ pc = "start" /\ op = "ErrorFromInternalStatus"
    /\ retErr' = ErrorFromInternalStatus(internalStatus)
    /\ pc' = "done"
    /\ UNCHANGED recorderVars
    /\ UNCHANGED <<op, bridgeVars, httpStatusCode, detail, code, internalStatus, retCode,
                   retBool>>

CallIsGRPCProtocol ==
    /\ pc = "start" /\ op = "IsGRPCProtocol"
    /\ IF IsGRPCProtocolPanics(internalMD)
       THEN panicked' = TRUE /\ UNCHANGED retBool
       ELSE retBool' = IsGRPCProtocol(internalMD) /\ UNCHANGED panicked
    /\ pc' = "done"
    /\ UNCHANGED recorderVars
    /\ UNCHANGED <<op, ctx, internalMD, httpHeaderConversion, md, headers,
                   httpStatusCode, detail, code, internalStatus, retCode, retErr>>

CallInternalMetadataToGrpcMetadata ==
    /\ pc = "start" /\ op = "InternalMetadataToGrpcMetadata"
    /\ \E order \in Orders(DOMAIN internalMD) :
           LET r == InternalMetadataToGrpcMetadata(ctx, internalMD,
                                                   httpHeaderConversion, order)
           IN md' = r.md /\ panicked' = r.panicked
    /\ pc' = "done"
    /\ UNCHANGED recorderVars
    /\ UNCHANGED <<op, ctx, internalMD, httpHeaderConversion, headers,
                   httpStatusCode, detail, code, internalStatus, retCode, retErr,
                   retBool>>

CallInternalMetadataToHTTPHeader ==
    /\ pc = "start" /\ op = "InternalMetadataToHTTPHeader"
    /\ \E order \in Orders(DOMAIN internalMD) :
           LET r == InternalMetadataToHTTPHeader(ctx, internalMD, order)
           IN headers' = r.headers /\ panicked' = r.panicked
    /\ pc' = "done"
    /\ UNCHANGED recorderVars
    /\ UNCHANGED <<op, ctx, internalMD, httpHeaderConversion, md,
                   httpStatusCode, detail, code, internalStatus, retCode, retErr,
                   retBool>>

NextStatus ==
    \/ CallCodeFromHTTPStatus
    \/ CallHTTPStatusFromCode
    \/ CallErrorFromHTTPResponseCode
    \/ CallErrorFromInternalStatus

NextBridge ==
    \/ CallInternalMetadataToGrpcMetadata
    \/ CallInternalMetadataToHTTPHeader

NextProtocol ==
    \/ CallIsGRPCProtocol
    \/ NextBridge


\* The calls of the status/code translator.
SpecStatus == InitStatus /\ [][NextStatus]_vars

\* The calls of the bridges on maps of trace keys.
SpecTrace == InitTrace /\ [][NextBridge]_vars

\* The calls of IsGRPCProtocol and of the bridges on maps with a content type.
SpecProtocol == InitProtocol /\ [][NextProtocol]_vars

\* The calls of InternalMetadataToGrpcMetadata on maps of keys that are copied.
NextGrpcMD == CallInternalMetadataToGrpcMetadata
SpecGrpcMD == InitGrpcMD /\ [][NextGrpcMD]_vars

\* The calls of InternalMetadataToHTTPHeader on maps of keys that are copied
\* or dropped.
NextHTTPHeader == CallInternalMetadataToHTTPHeader
SpecHTTPHeader == InitHTTPHeader /\ [][NextHTTPHeader]_vars

\* The calls of InternalMetadataToHTTPHeader on maps of reserved keys.
NextReserved == CallInternalMetadataToHTTPHeader
SpecReserved == InitReserved /\ [][NextReserved]_vars

\* The calls of the bridges on maps with keys that differ only in letter case.
SpecCase == InitCase /\ [][NextBridge]_vars

-----------------------------------------------------------------------------
(* The state machine of the recorder: g.Init and the calls through the     *)
(* interceptors and recording operations, each in steps that interleave.   *)

\* No function of util.go is called.
NoCall ==
    /\ pc = "start" /\ op = "grpcMetrics"
    /\ NoBridgeCall /\ NoStatusCall /\ NoResult

\* One call, through an interceptor or of a recording operation, on a
\* recorder that is nil, or new, or new with Init about to run beside the call.
InitRecorder ==
    /\ NoCall
    /\ \/ g = NilRecorder /\ initCall = NoInitCall
       \/ g = newGRPCMetrics /\ initCall \in {NoInitCall, InitCallStart}
    /\ rpc \in {("c1" :> r) : r \in InterceptorCalls \cup DirectCalls}
    /\ measurements = {} /\ errorCodes = <<>> /\ now = 0

\* One call through an interceptor of a recorder Init has enabled.
InitEnabled ==
    /\ NoCall
    /\ g = Initialized /\ initCall = InitCallDone
    /\ rpc \in {("c1" :> r) : r \in InterceptorCalls}
    /\ measurements = {} /\ errorCodes = <<>> /\ now = 0

\* Several calls through the interceptors of one recorder Init has enabled.
InitConcurrent ==
    /\ NoCall
    /\ g = Initialized /\ initCall = InitCallDone
    /\ rpc \in [CallIds -> ConcurrentCalls]
    /\ measurements = {} /\ errorCodes = <<>> /\ now = 0

\* g.Init(meter, appID, ...), lines 116-118: the three fields are written.
\* Nothing orders these writes with the reads of the recording operations, so
\* they become visible one at a time, in any order.
InitWrites ==
    /\ initCall.pc = "running"
    /\ \E f \in {"appID", "enabled", "meter"} \ initCall.written :
          /\ g' = CASE f = "appID" -> [g EXCEPT !.appID = InitAppID]
                    [] f = "enabled" -> [g EXCEPT !.enabled = TRUE]
                    [] f = "meter" -> [g EXCEPT !.meter = InitMeter]
          /\ initCall' = [initCall EXCEPT !.written = @ \cup {f}]
    /\ UNCHANGED <<callVars, rpc, measurements, errorCodes, now>>

\* g.Init, line 120: meter.Register gives the result of Init, nil or an error.
InitReturns ==
    /\ initCall.pc = "running"
    /\ initCall.written = {"appID", "enabled", "meter"}
    /\ \E failed \in BOOLEAN :
          initCall' = [initCall EXCEPT !.pc = "done",
                          !.err = IF failed THEN RegisterError ELSE ""]
    /\ UNCHANGED <<callVars, g, rpc, measurements, errorCodes, now>>

\* An interceptor is called and invokes its handler: the unary ones after
\* taking the time, the streaming ones after the test on the incoming
\* metadata and, when proxied, taking the time.
HandlerInvoked ==
    \E c \in DOMAIN rpc :
    /\ rpc[c].pc = "start"
    /\ LET r == rpc[c]
           bypass == r.role \in StreamInterceptors /\ NotProxied(r.incoming)
       IN rpc' = [rpc EXCEPT ![c] = [r EXCEPT
                     !.pc = "handler",
                     !.bypass = bypass,
                     !.start = IF bypass THEN 0 ELSE now,
                     !.events = @ \o <<"handler">>]]
    /\ UNCHANGED <<callVars, g, initCall, measurements, errorCodes, now>>

\* The handler returns.  A stream that is not proxied returns its error at
\* once; otherwise the interceptor computes the arguments of its recording
\* operation and calls it.
HandlerReturned ==
    \E c \in DOMAIN rpc :
    /\ rpc[c].pc = "handler"
    /\ \E err \in HandlerErrors :
       \E resp \in (IF err.nil /\ rpc[c].role \notin StreamInterceptors
                    THEN Replies ELSE {NilPayload}) :
          LET r == rpc[c]
          IN rpc' = [rpc EXCEPT ![c] =
                 IF r.bypass
                 THEN [r EXCEPT !.pc = "done", !.err = err, !.ret = err,
                                !.events = @ \o <<"returned", "return">>]
                 ELSE [r EXCEPT !.pc = "record", !.err = err, !.resp = resp,
                                !.call = InterceptorRecords(r, resp, err),
                                !.events = @ \o <<"returned">>]]
    /\ UNCHANGED <<callVars, g, initCall, measurements, errorCodes, now>>

\* A recording operation is entered: it returns at once unless the recorder
\* is enabled, and otherwise takes the time elapsed since start.
RecordingOpEntered ==
    \E c \in DOMAIN rpc :
    /\ rpc[c].pc = "record"
    /\ LET r == rpc[c]
       IN rpc' = [rpc EXCEPT ![c] =
              IF ~IsEnabled(g)
              THEN [r EXCEPT !.pc = "after"]
              ELSE [r EXCEPT !.pc = "emit", !.next = 1,
                             !.elapsed = Elapsed(r.start, now)]]
    /\ UNCHANGED <<callVars, g, initCall, measurements, errorCodes, now>>

\* The next stats.RecordWithOptions of the recording operation, with the
\* meter and the appID the recorder holds at this time.
RecordWithOptions ==
    \E c \in DOMAIN rpc :
    /\ rpc[c].pc = "emit"
    /\ LET r == rpc[c]
           ms == Recorded(g, r.call, r.elapsed)
           m == ms[r.next]
       IN /\ measurements' = measurements \cup
                 {[call |-> c, measure |-> m.measure, tags |-> m.tags,
                   value |-> m.value, meter |-> m.meter]}
          /\ rpc' = [rpc EXCEPT ![c] = [r EXCEPT
                        !.pc = IF r.next = Len(ms) THEN "after" ELSE "emit",
                        !.next = r.next + 1,
                        !.events = @ \o <<m.measure>>]]
    /\ UNCHANGED <<callVars, g, initCall, errorCodes, now>>

\* The recording operation has returned.  An interceptor gives an error of
\* the handler to RecordErrorCode, and returns what the handler returned.
CallReturns ==
    \E c \in DOMAIN rpc :
    /\ rpc[c].pc = "after"
    /\ LET r == rpc[c]
           surfaced == r.role \in Interceptors /\ ~r.err.nil
       IN /\ errorCodes' = IF surfaced
                           THEN Append(errorCodes, [call |-> c, err |-> r.err])
                           ELSE errorCodes
          /\ rpc' = [rpc EXCEPT ![c] = [r EXCEPT
                        !.pc = "done", !.ret = r.err,
                        !.events = @ \o (IF surfaced THEN <<"RecordErrorCode">> ELSE <<>>)
                                     \o <<"return">>]]
    /\ UNCHANGED <<callVars, g, initCall, measurements, now>>

\* Time passes.
Tick ==
    /\ now < MaxTime
    /\ now' = now + 1
    /\ UNCHANGED <<callVars, g, initCall, rpc, measurements, errorCodes>>

NextCalls ==
    \/ HandlerInvoked \/ HandlerReturned \/ RecordingOpEntered
    \/ RecordWithOptions \/ CallReturns \/ Tick

NextRecorder == InitWrites \/ InitReturns \/ NextCalls

\* One call beside g.Init.
SpecRecorder == InitRecorder /\ [][NextRecorder]_vars

\* One call on an enabled recorder.
SpecEnabled == InitEnabled /\ [][NextCalls]_vars

\* Concurrent calls on an enabled recorder.
SpecConcurrent == InitConcurrent /\ [][NextCalls]_vars

-----------------------------------------------------------------------------
(* All the calls.                                                          *)

Init ==
    \/ InitStatus \/ InitTrace \/ InitProtocol \/ InitGrpcMD \/ InitHTTPHeader
    \/ InitReserved \/ InitCase \/ InitRecorder \/ InitEnabled \/ InitConcurrent

Next == NextStatus \/ NextProtocol \/ NextRecorder

Spec == Init /\ [][Next]_vars

-----------------------------------------------------------------------------
(* Properties of the status/code translator, under SpecStatus.             *)

Returned(f) == pc = "done" /\ op = f

Is2xx(s) == s >= 200 /\ s <= 299

\* C6: for every HTTP status code from 200 to 299, CodeFromHTTPStatus returns
\* OK and ErrorFromHTTPResponseCode returns nil, whatever the detail; for every
\* code outside 200..299 ErrorFromHTTPResponseCode returns a non-nil error
\* whose gRPC code is not OK.
C6_SuccessIsOKAndNil ==
    /\ Returned("CodeFromHTTPStatus") /\ Is2xx(httpStatusCode) => retCode = OK
    /\ Returned("ErrorFromHTTPResponseCode") =>
           IF Is2xx(httpStatusCode) THEN retErr.nil
           ELSE ~retErr.nil /\ retErr.code # OK

\* C6 witness: the last success code, given with a detail, has returned nil.
C6_Witness ==
    /\ Returned("ErrorFromHTTPResponseCode")
    /\ httpStatusCode = 299 /\ detail # "" /\ retErr.nil

\* C7, as claimed: CodeFromHTTPStatus maps HTTP 400 to INVALID_ARGUMENT.
C7_BadRequestIsInvalidArgument ==
    Returned("CodeFromHTTPStatus") /\ httpStatusCode = 400
        => retCode = InvalidArgument

\* C7, amended: CodeFromHTTPStatus maps HTTP 400 to INTERNAL.
C7_BadRequestIsInternal ==
    Returned("CodeFromHTTPStatus") /\ httpStatusCode = 400 => retCode = Internal

\* C7 witness: CodeFromHTTPStatus has returned for 400.
C7_Witness ==
    Returned("CodeFromHTTPStatus") /\ httpStatusCode = 400 /\ retCode = 13

\* C8: CodeFromHTTPStatus maps 401 to UNAUTHENTICATED, 403 to PERMISSION_DENIED,
\* 404 to NOT_FOUND, 408 to CANCELED, 409 to ALREADY_EXISTS, 429 to
\* RESOURCE_EXHAUSTED, 500 to UNKNOWN, 501 to UNIMPLEMENTED, 503 to UNAVAILABLE
\* and 504 to DEADLINE_EXCEEDED.
C8_CodeFromHTTPStatusTable ==
    Returned("CodeFromHTTPStatus") =>
        /\ httpStatusCode = 401 => retCode = Unauthenticated
        /\ httpStatusCode = 403 => retCode = PermissionDenied
        /\ httpStatusCode = 404 => retCode = NotFound
        /\ httpStatusCode = 408 => retCode = Canceled
        /\ httpStatusCode = 409 => retCode = AlreadyExists
        /\ httpStatusCode = 429 => retCode = ResourceExhausted
        /\ httpStatusCode = 500 => retCode = Unknown
        /\ httpStatusCode = 501 => retCode = Unimplemented
        /\ httpStatusCode = 503 => retCode = Unavailable
        /\ httpStatusCode = 504 => retCode = DeadlineExceeded

\* C8 witness: CodeFromHTTPStatus has returned ALREADY_EXISTS for 409.
C8_Witness ==
    Returned("CodeFromHTTPStatus") /\ httpStatusCode = 409 /\ retCode = 6

\* C9: HTTPStatusFromCode maps the seventeen gRPC codes as the table says; in
\* particular ALREADY_EXISTS and ABORTED both give 409, and INTERNAL, UNKNOWN
\* and DATA_LOSS all give 500.
C9_HTTPStatusFromCodeTable ==
    Returned("HTTPStatusFromCode") =>
        /\ code = OK                 => retCode = 200
        /\ code = Canceled           => retCode = 408
        /\ code = Unknown            => retCode = 500
        /\ code = InvalidArgument    => retCode = 400
        /\ code = DeadlineExceeded   => retCode = 504
        /\ code = NotFound           => retCode = 404
        /\ code = AlreadyExists      => retCode = 409
        /\ code = PermissionDenied   => retCode = 403
        /\ code = Unauthenticated    => retCode = 401
        /\ code = ResourceExhausted  => retCode = 429
        /\ code = FailedPrecondition => retCode = 400
        /\ code = Aborted            => retCode = 409
        /\ code = OutOfRange         => retCode = 400
        /\ code = Unimplemented      => retCode = 501
        /\ code = Internal           => retCode = 500
        /\ code = Unavailable        => retCode = 503
        /\ code = DataLoss           => retCode = 500

\* C9 witness: HTTPStatusFromCode has returned 400 for FAILED_PRECONDITION.
C9_Witness ==
    Returned("HTTPStatusFromCode") /\ code = 9 /\ retCode = 400

\* The HTTP status codes of the explicit table.
TableHTTPStatus == {400, 401, 403, 404, 408, 409, 429, 500, 501, 503, 504}

\* C10: a miss is answered with the default, never with an error: for every
\* integer outside 200..299 that is not in the table CodeFromHTTPStatus returns
\* UNKNOWN; for every gRPC code outside the seventeen defined ones
\* HTTPStatusFromCode returns 500; and every result of HTTPStatusFromCode is
\* one of 200, 400, 401, 403, 404, 408, 409, 429, 500, 501, 503, 504.
C10_MissesGetTheDefault ==
    /\ Returned("CodeFromHTTPStatus")
           /\ ~Is2xx(httpStatusCode) /\ httpStatusCode \notin TableHTTPStatus
       => retCode = Unknown
    /\ Returned("HTTPStatusFromCode") =>
           /\ code > 16 => retCode = 500
           /\ retCode \in {200} \cup TableHTTPStatus

\* C10 witness: HTTPStatusFromCode has returned 500 for a code that is not
\* defined.
C10_Witness ==
    Returned("HTTPStatusFromCode") /\ code = 17 /\ retCode = 500

\* C11: the lossy pairs: FAILED_PRECONDITION and OUT_OF_RANGE are translated to
\* HTTP 400, which CodeFromHTTPStatus translates to INTERNAL; and
\* CodeFromHTTPStatus returns neither of the two for any HTTP status code.
C11_LossyPairs ==
    /\ Returned("HTTPStatusFromCode") /\ code \in {FailedPrecondition, OutOfRange} =>
           retCode = 400 /\ CodeFromHTTPStatus(retCode) = Internal
    /\ Returned("CodeFromHTTPStatus") =>
           retCode \notin {FailedPrecondition, OutOfRange}

\* C11 witness: HTTPStatusFromCode has returned 400 for OUT_OF_RANGE.
C11_Witness ==
    Returned("HTTPStatusFromCode") /\ code = OutOfRange /\ retCode = 400

\* The length of a detail is Go's len: its number of bytes.
\* The detail as it is attached: its first 63 bytes when it has 63 or more.
Attached(d) == IF GoLen(d) >= 63 THEN GoPrefix(d, 63) ELSE d

\* C12: for a status code outside 200..299 the error of
\* ErrorFromHTTPResponseCode has the gRPC code CodeFromHTTPStatus gives, the
\* reason phrase of the status code as its message, and one ErrorInfo with
\* that reason phrase as reason, the domain dapr.io, and the metadata
\* http.code, the decimal text of the status code, and http.error_message,
\* the detail as attached; or, when the ErrorInfo cannot be attached (a string
\* of it is not UTF-8), no detail at all, with the same code and message.
C12_ErrorOfHTTPResponseCode ==
    Returned("ErrorFromHTTPResponseCode") /\ ~Is2xx(httpStatusCode) =>
        /\ ~retErr.nil
        /\ retErr.code = CodeFromHTTPStatus(httpStatusCode)
        /\ retErr.message = StatusText(httpStatusCode)
        /\ IF ValidUTF8(Bytes(Attached(detail)))
           THEN retErr.details =
                    <<[reason   |-> StatusText(httpStatusCode),
                       domain   |-> "dapr.io",
                       metadata |-> ("http.code" :> Itoa(httpStatusCode))
                                        @@ ("http.error_message" :> Attached(detail))]>>
           ELSE retErr.details = <<>>

\* C12 witness: the error for 404 and a one-letter detail carries NOT_FOUND,
\* "Not Found" and the ErrorInfo with http.code "404".
C12_Witness ==
    /\ Returned("ErrorFromHTTPResponseCode") /\ httpStatusCode = 404
    /\ detail = Letters(1)
    /\ retErr.code = NotFound /\ retErr.message = "Not Found"
    /\ Len(retErr.details) = 1
    /\ retErr.details[1].metadata["http.code"] = "404"

C14_PassthroughOfEveryStatus ==
    Returned("ErrorFromInternalStatus") =>
        /\ ~retErr.nil
        /\ retErr.code = internalStatus.code
        /\ retErr.message = internalStatus.message
        /\ retErr.details = internalStatus.details

\* C14, amended: ErrorFromInternalStatus passes every status whose code is not
\* OK through: the error carries the code, the message and the details of the
\* status, in their order; for a status whose code is OK the result is nil,
\* whatever its message and details.
C14_PassthroughOfFailures ==
    Returned("ErrorFromInternalStatus") =>
        IF internalStatus.code = OK THEN retErr.nil
        ELSE /\ ~retErr.nil
             /\ retErr.code = internalStatus.code
             /\ retErr.message = internalStatus.message
             /\ retErr.details = internalStatus.details

\* C14 witness: a status with an undefined code, a message and two details has
\* been passed through.
C14_Witness ==
    /\ Returned("ErrorFromInternalStatus")
    /\ internalStatus = Status(MaxCode, "boom", <<"detail-2", "detail-1">>)
    /\ ~retErr.nil /\ retErr.details = <<"detail-2", "detail-1">>



\* The data model's invariant on the input: no key with an empty value list.
Stored(imd) == \A k \in DOMAIN imd : Len(imd[k]) > 0

\* The first values of the keys of the map that are name in lower case and
\* have a value: what the loop of a bridge may leave in its variable for name.
\* When no key has a value the variable keeps its zero value, the empty string.
Inbound(imd, name) ==
    LET firsts == {imd[k][1] : k \in {x \in DOMAIN imd :
                                         ToLower(x) = name /\ Len(imd[x]) > 0}}
    IN IF firsts = {} THEN {""} ELSE firsts

\* The source of the call is HTTP / is gRPC (IsGRPCProtocol has returned).
FromHTTP == ~IsGRPCProtocolPanics(internalMD) /\ ~IsGRPCProtocol(internalMD)
FromGRPC == ~IsGRPCProtocolPanics(internalMD) /\ IsGRPCProtocol(internalMD)

\* The setHeader calls for the trace headers.
TraceCalls(calls) ==
    SelectSeq(calls, LAMBDA c : c.name \in {TraceparentHeader, TracestateHeader})

\* The metadata carries the span context sc: as grpc-trace-bin and, mirrored,
\* as traceparent, and as tracestate exactly when sc has a trace-state.
CarriesBoth(m, sc) ==
    /\ Has(m, GRPCTraceContextKey)
    /\ m[GRPCTraceContextKey] = <<BinaryFromSpanContext(sc)>>
    /\ Has(m, TraceparentHeader)
    /\ m[TraceparentHeader] = <<SpanContextToW3CString(sc)>>
    /\ IF sc.traceState # ""
       THEN Has(m, TracestateHeader) /\ m[TracestateHeader] = <<sc.traceState>>
       ELSE ~Has(m, TracestateHeader)

\* The token is malformed: not base64, or base64 of bytes that are no binary
\* span context.
MalformedToken(t) ==
    t # "" /\ (DecodeString(t).err \/ ~SpanContextFromBinary(DecodeString(t).data).ok)

\* C1, as claimed: each of the four directions emits a trace context, whatever
\* the inbound trace value is: the metadata returned by
\* InternalMetadataToGrpcMetadata has the key grpc-trace-bin, and
\* InternalMetadataToHTTPHeader sets the traceparent header.
C1_TraceAlwaysEmitted ==
    /\ Returned("InternalMetadataToGrpcMetadata") /\ Stored(internalMD) =>
           ~panicked /\ Has(md, GRPCTraceContextKey)
    /\ Returned("InternalMetadataToHTTPHeader") /\ Stored(internalMD) =>
           ~panicked /\ \E i \in 1..Len(headers) : headers[i].name = TraceparentHeader

\* C2: from an HTTP source InternalMetadataToGrpcMetadata sets grpc-trace-bin
\* and the mirrored traceparent (and tracestate) from one span context: the
\* one of the first inbound traceparent value, with the inbound tracestate,
\* when that value is well-formed, its trace-id and span-id kept as written;
\* the ambient span's when traceparent is absent, empty or malformed.
C2_HTTPToGRPCSetsBoth ==
    Returned("InternalMetadataToGrpcMetadata") /\ Stored(internalMD) /\ FromHTTP =>
        /\ ~panicked
        /\ \E tp \in Inbound(internalMD, TraceparentHeader),
              ts \in Inbound(internalMD, TracestateHeader) :
               LET parsed == SpanContextFromW3CString(tp)
               IN IF parsed.ok
                  THEN /\ CarriesBoth(md, WithTraceState(parsed.sc,
                                              TraceStateFromW3CString(ts)))
                       /\ SubSeq(md[TraceparentHeader][1], 4, 52) = SubSeq(tp, 4, 52)
                       /\ SubSeq(Bytes(md[GRPCTraceContextKey][1]), 3, 18)
                              = HexDecode(Bytes(SubSeq(tp, 4, 35)))
                       /\ SubSeq(Bytes(md[GRPCTraceContextKey][1]), 20, 27)
                              = HexDecode(Bytes(SubSeq(tp, 37, 52)))
                  ELSE CarriesBoth(md, SpanFromContext(ctx))

\* C2 witness: an HTTP call with a well-formed traceparent and a tracestate
\* has returned metadata with grpc-trace-bin and both mirrored headers.
C2_Witness ==
    /\ Returned("InternalMetadataToGrpcMetadata") /\ FromHTTP
    /\ Has(internalMD, "traceparent") /\ internalMD["traceparent"] = <<TraceparentA>>
    /\ Has(internalMD, "tracestate") /\ internalMD["tracestate"] = <<TracestateA>>
    /\ Has(md, GRPCTraceContextKey) /\ Has(md, TraceparentHeader)
    /\ Has(md, TracestateHeader)

\* C3, as claimed: when the inbound trace value is malformed, the call ends
\* without failure and emits the ambient span's context: from gRPC to HTTP and
\* from gRPC to gRPC for a malformed grpc-trace-bin, from HTTP to gRPC for a
\* malformed traceparent.
C3_MalformedFallsBackToAmbient ==
    /\ /\ Returned("InternalMetadataToHTTPHeader") /\ Stored(internalMD) /\ FromGRPC
       /\ \A t \in Inbound(internalMD, GRPCTraceContextKey) : MalformedToken(t)
       => ~panicked
          /\ TraceCalls(headers) = SpanContextToHTTPHeaders(SpanFromContext(ctx))
    /\ /\ Returned("InternalMetadataToGrpcMetadata") /\ Stored(internalMD) /\ FromGRPC
       /\ \A t \in Inbound(internalMD, GRPCTraceContextKey) : MalformedToken(t)
       => ~panicked /\ CarriesBoth(md, SpanFromContext(ctx))
    /\ /\ Returned("InternalMetadataToGrpcMetadata") /\ Stored(internalMD) /\ FromHTTP
       /\ \A tp \in Inbound(internalMD, TraceparentHeader) :
              tp # "" /\ ~SpanContextFromW3CString(tp).ok
       => ~panicked /\ CarriesBoth(md, SpanFromContext(ctx))

\* C4, as claimed: from a gRPC source InternalMetadataToGrpcMetadata derives
\* grpc-trace-bin and the mirrored headers from the ambient span when the
\* inbound grpc-trace-bin is absent or empty; when it is not empty, it sets
\* grpc-trace-bin to the base64-decoded bytes of the token, whether or not
\* they parse as a span context, and adds the mirrored headers exactly when
\* they do.
C4_GRPCToGRPC ==
    Returned("InternalMetadataToGrpcMetadata") /\ Stored(internalMD) /\ FromGRPC =>
        /\ ~panicked
        /\ \E t \in Inbound(internalMD, GRPCTraceContextKey) :
               IF t = "" THEN CarriesBoth(md, SpanFromContext(ctx))
               ELSE LET decoded == DecodeString(t).data
                        parsed  == SpanContextFromBinary(decoded)
                    IN /\ Has(md, GRPCTraceContextKey)
                       /\ md[GRPCTraceContextKey] = <<decoded>>
                       /\ Has(md, TraceparentHeader) <=> parsed.ok
                       /\ parsed.ok =>
                              md[TraceparentHeader] = <<SpanContextToW3CString(parsed.sc)>>

\* C5: from an HTTP source InternalMetadataToHTTPHeader sets the headers of the
\* ambient span when the inbound traceparent is absent or empty, and then
\* passes no inbound tracestate on; otherwise it sets traceparent to the first
\* inbound traceparent value as it is, well-formed or not, and tracestate to
\* the first inbound tracestate value exactly when that is not empty.  No
\* later value of these keys is set.
C5_HTTPToHTTP ==
    Returned("InternalMetadataToHTTPHeader") /\ FromHTTP =>
        /\ ~panicked
        /\ \E tp \in Inbound(internalMD, TraceparentHeader),
              ts \in Inbound(internalMD, TracestateHeader) :
               TraceCalls(headers) =
                   IF tp = ""
                   THEN SpanContextToHTTPHeaders(SpanFromContext(ctx))
                   ELSE <<SetHeader(TraceparentHeader, tp)>>
                            \o (IF ts # ""
                                THEN <<SetHeader(TracestateHeader, ts)>>
                                ELSE <<>>)

\* C5 witness: an HTTP call with a traceparent that is no W3C traceparent and
\* with two tracestate values has set that traceparent and the first tracestate.
C5_Witness ==
    /\ Returned("InternalMetadataToHTTPHeader") /\ FromHTTP
    /\ Has(internalMD, "traceparent") /\ internalMD["traceparent"] = <<TraceparentJunk>>
    /\ Has(internalMD, "tracestate")
    /\ internalMD["tracestate"] = <<TracestateB, TracestateA>>
    /\ headers = <<SetHeader(TraceparentHeader, TraceparentJunk),
                   SetHeader(TracestateHeader, TracestateB)>>

-----------------------------------------------------------------------------
(* Properties of IsGRPCProtocol, under SpecProtocol.                       *)

\* The map without the keys that are one of names in lower case.
Without(imd, names) ==
    [k \in {x \in DOMAIN imd : ToLower(x) \notin names} |-> imd[k]]

\* C15: IsGRPCProtocol returns true exactly when the map has the key
\* content-type and the first value of that key starts with application/grpc,
\* letter case counting: true for application/grpc and application/grpc+proto,
\* false for application/json, for Application/GRPC and without the key.  Both
\* bridges take the trace path that value selects: from a gRPC source the
\* result is what it is without the inbound traceparent, from an HTTP source
\* what it is without the inbound grpc-trace-bin.
C15_IsGRPCProtocol ==
    /\ Returned("IsGRPCProtocol") /\ Stored(internalMD) =>
           /\ ~panicked
           /\ retBool <=>
                  /\ "content-type" \in DOMAIN internalMD
                  /\ Len(internalMD["content-type"][1]) >= 16
                  /\ SubSeq(internalMD["content-type"][1], 1, 16) = "application/grpc"
           /\ "content-type" \notin DOMAIN internalMD => ~retBool
           /\ "content-type" \in DOMAIN internalMD =>
                  LET first == internalMD["content-type"][1]
                  IN /\ first \in {"application/grpc", "application/grpc+proto"} => retBool
                     /\ first \in {"application/json", "Application/GRPC"} => ~retBool
    /\ Returned("InternalMetadataToGrpcMetadata") /\ Stored(internalMD) =>
           LET ignored == IF FromGRPC THEN {"traceparent"} ELSE {"grpc-trace-bin"}
               imd     == Without(internalMD, ignored)
           IN \E order \in Orders(DOMAIN imd) :
                  md = InternalMetadataToGrpcMetadata(ctx, imd, httpHeaderConversion,
                                                      order).md
    /\ Returned("InternalMetadataToHTTPHeader") /\ Stored(internalMD) =>
           LET ignored == IF FromGRPC THEN {"traceparent"} ELSE {"grpc-trace-bin"}
               imd     == Without(internalMD, ignored)
           IN \E order \in Orders(DOMAIN imd) :
                  headers = InternalMetadataToHTTPHeader(ctx, imd, order).headers

\* C15 witness: IsGRPCProtocol has returned true for a map whose content-type
\* starts with application/grpc+proto and that has an inbound traceparent.
C15_Witness ==
    /\ Returned("IsGRPCProtocol") /\ retBool
    /\ Has(internalMD, "content-type")
    /\ internalMD["content-type"] = <<"application/grpc+proto", JSONContentType>>
    /\ Has(internalMD, "traceparent")

-----------------------------------------------------------------------------
(* Properties of the copying of InternalMetadataToGrpcMetadata, under      *)
(* SpecGrpcMD.                                                             *)

\* The keys of the metadata that the trace propagation sets.
TraceNames == {"traceparent", "tracestate", "grpc-trace-bin"}

\* The keys of the map that are copied: not a trace key, not the destination.
Copied(imd) ==
    {k \in DOMAIN imd : ToLower(k) \notin TraceNames \cup {"destination-app-id"}}

\* The keys of the maps that are names of permanent headers as the list
\* writes them.
CanonicalPermanent == {"Accept", "Content-Type"}

\* C16: InternalMetadataToGrpcMetadata adds the prefix dapr- exactly when
\* httpHeaderConversion is true and the key is a name of the permanent-header
\* list as the list writes it: the values of Accept are then under
\* dapr-accept, those of accept under accept, and without httpHeaderConversion
\* no key of the output has the prefix.
C16_PrefixOfPermanentHeaders ==
    Returned("InternalMetadataToGrpcMetadata") =>
        /\ ~panicked
        /\ {n \in DOMAIN md : HasPrefix(n, "dapr-")} =
               IF httpHeaderConversion
               THEN {"dapr-" \o ToLower(k) :
                         k \in Copied(internalMD) \cap CanonicalPermanent}
               ELSE {}
        /\ httpHeaderConversion /\ "Accept" \in DOMAIN internalMD =>
               Has(md, "dapr-accept") /\ md["dapr-accept"] = internalMD["Accept"]
        /\ "accept" \in DOMAIN internalMD =>
               /\ Has(md, "accept")
               /\ \E i \in 1..Len(md["accept"]) :
                      md["accept"][i] = internalMD["accept"][1]
        /\ httpHeaderConversion /\ "accept" \in DOMAIN internalMD =>
               md["accept"] = internalMD["accept"]

\* C16 witness: with httpHeaderConversion a map with Accept and accept has
\* given metadata with dapr-accept and accept.
C16_Witness ==
    /\ Returned("InternalMetadataToGrpcMetadata") /\ httpHeaderConversion
    /\ {"Accept", "accept"} \subseteq DOMAIN internalMD
    /\ Has(md, "dapr-accept") /\ md["dapr-accept"] = <<"text/html", "*/*">>
    /\ Has(md, "accept") /\ md["accept"] = <<"application/xml">>

\* What a value of a binary key stands for: the bytes it is the base64 text
\* of, or nothing when it is not base64.
Decoded(v) ==
    CASE v = EncodeToString(BinText)  -> <<BinText>>
      [] v = EncodeToString(BinBytes) -> <<BinBytes>>
      [] OTHER                        -> <<>>

RECURSIVE DecodedAll(_)
DecodedAll(vals) ==
    IF Len(vals) = 0 THEN <<>> ELSE Decoded(Head(vals)) \o DecodedAll(Tail(vals))

\* The values the key k of the map gives to the output, and the key of the
\* output that gets them.
Contribution(imd, k) ==
    IF Len(k) >= 4 /\ SubSeq(k, Len(k) - 3, Len(k)) = "-bin"
    THEN DecodedAll(imd[k]) ELSE imd[k]
OutputKey(k, conv) ==
    IF conv /\ k \in CanonicalPermanent THEN "dapr-" \o ToLower(k) ELSE ToLower(k)

RECURSIVE ContributionsTo(_, _, _, _)
\* The values given to the key n of the output by the keys of the map, taken
\* in the order order.
ContributionsTo(n, imd, order, conv) ==
    IF Len(order) = 0 THEN <<>>
    ELSE (IF OutputKey(Head(order), conv) = n
          THEN Contribution(imd, Head(order)) ELSE <<>>)
             \o ContributionsTo(n, imd, Tail(order), conv)

\* C17: for a key ending with -bin InternalMetadataToGrpcMetadata appends the
\* bytes each value is the base64 text of, in the order of the values; a
\* value that is not base64 is left out, and a key with no value that decodes
\* is not in the output.  The values of any other copied key are appended as
\* they are, in their order.  (Two keys with one lower-case form give their
\* values to one key of the output, in the order the map is visited in.)
C17_BinaryValuesDecoded ==
    Returned("InternalMetadataToGrpcMetadata") =>
        /\ ~panicked
        /\ \E order \in Orders(Copied(internalMD)) :
               \A n \in (DOMAIN md \ TraceNames)
                            \cup {OutputKey(k, httpHeaderConversion) :
                                      k \in Copied(internalMD)} :
                   LET vals == ContributionsTo(n, internalMD, order,
                                               httpHeaderConversion)
                   IN IF Len(vals) = 0 THEN ~Has(md, n)
                      ELSE Has(md, n) /\ md[n] = vals

\* C17 witness: a binary key with two values that decode around one that does
\* not has given the two decoded values, in their order.
C17_Witness ==
    /\ Returned("InternalMetadataToGrpcMetadata")
    /\ Has(internalMD, "user-bin") /\ ~Has(internalMD, "User-Bin")
    /\ internalMD["user-bin"] =
           <<EncodeToString(BinBytes), NotB64A, EncodeToString(BinText)>>
    /\ Has(md, "user-bin") /\ md["user-bin"] = <<BinBytes, BinText>>

-----------------------------------------------------------------------------
(* Properties of the copying of InternalMetadataToHTTPHeader, under        *)
(* SpecHTTPHeader.                                                         *)

\* The setHeader calls that are not for a trace header.
CopyCalls(calls) ==
    SelectSeq(calls, LAMBDA c : c.name \notin {"traceparent", "tracestate"})

\* The map without its keys that have no value.
WithValues(imd) == [k \in {x \in DOMAIN imd : Len(imd[x]) > 0} |-> imd[k]]

\* C18, as claimed: InternalMetadataToHTTPHeader skips the keys without
\* values: the call ends without failure and sets the headers it sets for the
\* map without those keys.
C18_KeysWithoutValuesSkipped ==
    Returned("InternalMetadataToHTTPHeader") =>
        /\ ~panicked
        /\ \E order \in Orders(DOMAIN WithValues(internalMD)) :
               headers = InternalMetadataToHTTPHeader(ctx, WithValues(internalMD),
                                                      order).headers

\* The name a key that is copied is set under.
HeaderNameOf(k) ==
    LET n == ToLower(k)
    IN CASE n = ":method" -> "dapr-method"
         [] n = ":scheme" -> "dapr-scheme"
         [] n = ":path" -> "dapr-path"
         [] n = ":authority" -> "dapr-authority"
         [] HasPrefix(n, "grpc-") -> "dapr-" \o n
         [] OTHER -> n

\* The keys no header is set for: the destination, the content type, the
\* binary keys, in any letter case, and the trace keys.
NotCopied(k) ==
    LET n == ToLower(k)
    IN \/ n \in {"destination-app-id", "content-type"}
       \/ HasSuffix(n, "-bin")
       \/ n \in {"traceparent", "tracestate"}

\* The setHeader calls due to key k.
CallsFor(imd, k) ==
    CASE Len(imd[k]) = 0 \/ NotCopied(k) -> <<>>
      [] ToLower(k) = "baggage" -> <<[name |-> "baggage", value |-> imd[k][1]]>>
      [] OTHER -> [i \in 1..Len(imd[k]) |-> [name |-> HeaderNameOf(k), value |-> imd[k][i]]]

RECURSIVE CallsInOrder(_, _)
CallsInOrder(imd, order) ==
    IF Len(order) = 0 THEN <<>>
    ELSE CallsFor(imd, Head(order)) \o CallsInOrder(imd, Tail(order))

\* C19: InternalMetadataToHTTPHeader sets no header named destination-app-id
\* or content-type or ending in -bin, whatever the case of the key; a baggage
\* key gives one call, named baggage, with its first value; any other ordinary
\* key with n values gives n calls, one per value, in the order of the values.
C19_CopiedAndDroppedKeys ==
    Returned("InternalMetadataToHTTPHeader") =>
        /\ \A i \in DOMAIN headers :
               /\ headers[i].name \notin {"destination-app-id", "content-type"}
               /\ ~HasSuffix(headers[i].name, "-bin")
        /\ \E order \in Orders(DOMAIN internalMD) :
               CopyCalls(headers) = CallsInOrder(internalMD, order)

\* A map with a capitalized binary key, a baggage key of two values and an
\* ordinary key of three values was converted.
C19_Witness ==
    /\ Returned("InternalMetadataToHTTPHeader")
    /\ DOMAIN internalMD = {"User-Bin", "baggage", "x-request-id"}
    /\ Len(internalMD["baggage"]) = 2
    /\ Len(internalMD["x-request-id"]) = 3
    /\ Len(CopyCalls(headers)) = 4

-----------------------------------------------------------------------------
(* Properties of the renaming of reserved keys, under SpecReserved.        *)

\* Some setHeader call was made with this name and value.
HeaderSet(name, value) ==
    \E i \in DOMAIN headers : headers[i] = [name |-> name, value |-> value]

\* C20: InternalMetadataToHTTPHeader sets no header named :method, :scheme,
\* :path or :authority and none whose name begins with grpc-: the values of
\* such keys are set under dapr-method, dapr-scheme, dapr-path,
\* dapr-authority and dapr- followed by the key.  Applying
\* ReservedGRPCMetadataToDaprPrefixHeader to its own result changes nothing.
C20_ReservedKeysRenamed ==
    Returned("InternalMetadataToHTTPHeader") =>
        /\ \A i \in DOMAIN headers :
               /\ headers[i].name \notin {":method", ":scheme", ":path", ":authority"}
               /\ ~HasPrefix(headers[i].name, "grpc-")
        /\ \A k \in DOMAIN internalMD : \A j \in 1..Len(internalMD[k]) :
               HeaderSet(HeaderNameOf(k), internalMD[k][j])
        /\ \A k \in DOMAIN internalMD : \A key \in {k, ToLower(k)} :
               LET once == ReservedGRPCMetadataToDaprPrefixHeader(key)
               IN ReservedGRPCMetadataToDaprPrefixHeader(once) = once

\* A map with a pseudo-header and a capitalized grpc- key was converted, and
\* both were set under their new names.
C20_Witness ==
    /\ Returned("InternalMetadataToHTTPHeader")
    /\ {":method", "Grpc-Encoding"} \subseteq DOMAIN internalMD
    /\ HeaderSet("dapr-method", "POST")
    /\ HeaderSet("dapr-grpc-encoding", "identity")

-----------------------------------------------------------------------------
(* Properties of the bridges on keys that differ in letter case, under     *)
(* SpecCase.                                                               *)

RECURSIVE StoreAfter(_, _)
\* A header store where the last write of a name wins, after the calls.
StoreAfter(store, calls) ==
    IF Len(calls) = 0 THEN store
    ELSE StoreAfter([n \in DOMAIN store \cup {Head(calls).name} |->
                        IF n = Head(calls).name THEN Head(calls).value ELSE store[n]],
                    Tail(calls))

\* C29, as claimed: the result of a bridge is a function of its arguments:
\* whatever order the map is iterated in, InternalMetadataToGrpcMetadata
\* returns the same metadata and InternalMetadataToHTTPHeader leaves a
\* last-write-wins header store in the same state.
C29_BridgesDeterministic ==
    /\ Returned("InternalMetadataToGrpcMetadata") =>
           \A order \in Orders(DOMAIN internalMD) :
               LET r == InternalMetadataToGrpcMetadata(ctx, internalMD,
                                                       httpHeaderConversion, order)
               IN r.md = md /\ r.panicked = panicked
    /\ Returned("InternalMetadataToHTTPHeader") =>
           \A order \in Orders(DOMAIN internalMD) :
               StoreAfter(EmptyMD, InternalMetadataToHTTPHeader(ctx, internalMD, order).headers)
                   = StoreAfter(EmptyMD, headers)

-----------------------------------------------------------------------------
(* Properties of the recorder, under SpecRecorder: one call, on a recorder *)
(* that is nil, or never initialised, or initialised beside the call.      *)

\* The measurements call c recorded.
Measured(c) == {m \in measurements : m.call = c}

\* Call c has returned.
Completed(c) == rpc[c].pc = "done"

\* Call c went through an interceptor.
Intercepted(c) == rpc[c].role \in Interceptors

\* e is one of the events of call c.
Did(c, e) == \E i \in DOMAIN rpc[c].events : rpc[c].events[i] = e

\* The recorder is nil, or its enabled flag is not set.
Disabled == g.nil \/ ~g.enabled

\* C21: while the recorder is not enabled, a nil recorder included, no
\* measurement has been recorded by any operation, and a call that went
\* through an interceptor has invoked its handler and returned its result.
C21_DisabledRecordsNothing ==
    Disabled =>
        /\ measurements = {}
        /\ \A c \in DOMAIN rpc :
               (Completed(c) /\ Intercepted(c)) =>
                   Did(c, "handler") /\ Did(c, "returned") /\ rpc[c].ret = rpc[c].err

\* A call through the unary server interceptor of a recorder that is not
\* enabled has returned the error of its handler.
C21_Witness ==
    /\ Disabled
    /\ \E c \in DOMAIN rpc :
          /\ Completed(c) /\ rpc[c].role = "UnaryServerInterceptor"
          /\ ~rpc[c].ret.nil
    /\ measurements = {}

-----------------------------------------------------------------------------
(* Properties of a call on an enabled recorder, under SpecEnabled.         *)

\* The status of a call that ended with err, as a string.
StatusOf(err) ==
    IF err.nil THEN "OK"
    ELSE IF err.hasStatus /\ err.code = NotFound THEN "NotFound"
    ELSE "Unknown"

HasTag(m, key, value) == \E i \in DOMAIN m.tags : m.tags[i] = <<key, value>>
TagKeys(m) == {m.tags[i][1] : i \in DOMAIN m.tags}
Measures(c) == {m.measure : m \in Measured(c)}

HealthCheck == "/dapr.proto.runtime.v1.AppCallbackHealthCheck/HealthCheck"

\* Call c is a unary call that is not a health probe.
Unary(c) ==
    \/ rpc[c].role = "UnaryServerInterceptor"
    \/ rpc[c].role = "UnaryClientInterceptor" /\ rpc[c].method # HealthCheck

\* The tag keys and the measures of the role of a unary call.
MethodKey(c) ==
    IF rpc[c].role = "UnaryServerInterceptor" \/ rpc[c].role = "StreamingServerInterceptor"
    THEN "grpc_server_method" ELSE "grpc_client_method"
StatusKey(c) ==
    IF rpc[c].role = "UnaryServerInterceptor" \/ rpc[c].role = "StreamingServerInterceptor"
    THEN "grpc_server_status" ELSE "grpc_client_status"
CountAndLatency(c) ==
    IF rpc[c].role = "UnaryServerInterceptor" \/ rpc[c].role = "StreamingServerInterceptor"
    THEN {"grpc.io/server/completed_rpcs", "grpc.io/server/server_latency"}
    ELSE {"grpc.io/client/completed_rpcs", "grpc.io/client/roundtrip_latency"}
ByteCounts(c) ==
    IF rpc[c].role = "UnaryServerInterceptor"
    THEN {"grpc.io/server/received_bytes_per_rpc", "grpc.io/server/sent_bytes_per_rpc"}
    ELSE {"grpc.io/client/sent_bytes_per_rpc", "grpc.io/client/received_bytes_per_rpc"}

\* C22, as claimed: when a unary server or unary client call has completed,
\* the four measurements recorded for it (both byte counts, the latency and
\* the completion count) all carry the method of the call and its final
\* status.
C22_AllFourTaggedWithStatus ==
    \A c \in DOMAIN rpc :
        (Completed(c) /\ Unary(c)) =>
            /\ Measures(c) = CountAndLatency(c) \cup ByteCounts(c)
            /\ \A m \in Measured(c) :
                   /\ HasTag(m, MethodKey(c), rpc[c].method)
                   /\ HasTag(m, StatusKey(c), StatusOf(rpc[c].err))

\* C22, amended: the four measurements all carry the method of the call; the
\* completion count and the latency carry its final status as well, the two
\* byte counts carry no status.
C22_CountAndLatencyTaggedWithStatus ==
    \A c \in DOMAIN rpc :
        (Completed(c) /\ Unary(c)) =>
            /\ Measures(c) = CountAndLatency(c) \cup ByteCounts(c)
            /\ \A m \in Measured(c) :
                   /\ HasTag(m, MethodKey(c), rpc[c].method)
                   /\ m.measure \in CountAndLatency(c) =>
                          /\ HasTag(m, StatusKey(c), StatusOf(rpc[c].err))
                          /\ TagKeys(m) = {"app_id", MethodKey(c), StatusKey(c)}
                   /\ m.measure \in ByteCounts(c) =>
                          TagKeys(m) = {"app_id", MethodKey(c)}

\* A unary server call that failed with NotFound has completed, with its four
\* measurements.
C22_Witness ==
    \E c \in DOMAIN rpc :
        /\ Completed(c) /\ rpc[c].role = "UnaryServerInterceptor"
        /\ rpc[c].err = StatusError(NotFound, "no such app")
        /\ Cardinality(Measured(c)) = 4
        /\ \E m \in Measured(c) : HasTag(m, "grpc_server_status", "NotFound")

\* Call c is a streaming call; it is proxied when its incoming metadata has
\* a value for dapr-app-id.
Streaming(c) ==
    rpc[c].role \in {"StreamingServerInterceptor", "StreamingClientInterceptor"}
Proxied(c) ==
    /\ "dapr-app-id" \in DOMAIN rpc[c].incoming
    /\ Len(rpc[c].incoming["dapr-app-id"]) >= 1

\* Call c is a health probe.
HealthProbe(c) ==
    rpc[c].role = "UnaryClientInterceptor" /\ rpc[c].method = HealthCheck

HealthMeasures ==
    {"grpc.io/healthprobes/completed_count", "grpc.io/healthprobes/roundtrip_latency"}

\* What C23 says of unary calls and of health probes.
UnaryAndProbeMeasures(c) ==
    /\ Unary(c) =>
           /\ Cardinality(Measured(c)) = 4
           /\ Measures(c) = CountAndLatency(c) \cup ByteCounts(c)
    /\ HealthProbe(c) =>
           /\ Cardinality(Measured(c)) = 2
           /\ Measures(c) = HealthMeasures
           /\ \A m \in Measured(c) :
                  /\ TagKeys(m) = {"app_id", "grpc_client_status"}
                  /\ HasTag(m, "app_id", g.appID)
                  /\ HasTag(m, "grpc_client_status", StatusOf(rpc[c].err))

\* C23, as claimed: the measurements of a completed call are fixed by its
\* role: four with both byte counts for a unary call, a completion count and a
\* latency and no byte count for a streaming call, the health-probe count and
\* latency, tagged by appID and status without a method, for a health probe.
C23_MeasurementsByRole ==
    \A c \in DOMAIN rpc :
        (Completed(c) /\ Intercepted(c)) =>
            /\ UnaryAndProbeMeasures(c)
            /\ Streaming(c) =>
                   /\ Cardinality(Measured(c)) = 2
                   /\ Measures(c) = CountAndLatency(c)

\* C23, amended: as claimed for the unary calls and the health probes; a
\* streaming call records a completion count and a latency when its incoming
\* metadata has a value for dapr-app-id, and nothing otherwise.
C23_MeasurementsByRoleAndProxy ==
    \A c \in DOMAIN rpc :
        (Completed(c) /\ Intercepted(c)) =>
            /\ UnaryAndProbeMeasures(c)
            /\ (Streaming(c) /\ Proxied(c)) =>
                   /\ Cardinality(Measured(c)) = 2
                   /\ Measures(c) = CountAndLatency(c)
            /\ (Streaming(c) /\ ~Proxied(c)) => Measured(c) = {}

\* A health probe has completed with its two measurements.
C23_Witness ==
    \E c \in DOMAIN rpc :
        /\ Completed(c) /\ HealthProbe(c)
        /\ Measures(c) = HealthMeasures

-----------------------------------------------------------------------------
(* Properties of the interceptors, under SpecRecorder.                     *)

\* Event e1 of call c came before its event e2.
Before(c, e1, e2) ==
    \E i, j \in DOMAIN rpc[c].events :
        i < j /\ rpc[c].events[i] = e1 /\ rpc[c].events[j] = e2

\* The recording operation of call c found the recorder enabled.
PassedGuard(c) == rpc[c].next > 0

\* Call c recorded one streaming completion, a count and a latency, after its
\* handler returned, with its method and the status of the handler's error.
OneStreamCompletion(c) ==
    /\ Cardinality(Measured(c)) = 2
    /\ Measures(c) = CountAndLatency(c)
    /\ \A m \in Measured(c) :
           /\ HasTag(m, MethodKey(c), rpc[c].method)
           /\ HasTag(m, StatusKey(c), StatusOf(rpc[c].err))
           /\ Before(c, "returned", m.measure)

\* A stream that is not proxied: the handler is invoked directly and its
\* result returned, nothing is recorded.
StreamBypassed(c) ==
    /\ rpc[c].events = <<"handler", "returned", "return">>
    /\ Measured(c) = {}
    /\ rpc[c].ret = rpc[c].err

\* C24, as claimed: a streaming call without a value for dapr-app-id invokes
\* its handler directly, records nothing and returns the handler's result; one
\* with a value invokes the handler and records exactly one streaming
\* completion after it returned, with the method of the stream and the status
\* of the handler's error.
C24_StreamGate ==
    \A c \in DOMAIN rpc :
        (Completed(c) /\ Streaming(c)) =>
            /\ ~Proxied(c) => StreamBypassed(c)
            /\ Proxied(c) => Did(c, "handler") /\ OneStreamCompletion(c)

\* C24, amended: the completion of a stream with a value for dapr-app-id is
\* recorded when the recorder is enabled; when it is not, nothing is recorded.
C24_StreamGateWhenEnabled ==
    \A c \in DOMAIN rpc :
        (Completed(c) /\ Streaming(c)) =>
            /\ ~Proxied(c) => StreamBypassed(c)
            /\ Proxied(c) =>
                   /\ Did(c, "handler") /\ rpc[c].ret = rpc[c].err
                   /\ IF PassedGuard(c) THEN OneStreamCompletion(c)
                      ELSE Measured(c) = {}

\* A proxied client stream whose handler failed has completed and its
\* completion was recorded.
C24_Witness ==
    \E c \in DOMAIN rpc :
        /\ Completed(c) /\ rpc[c].role = "StreamingClientInterceptor"
        /\ Proxied(c) /\ ~rpc[c].err.nil
        /\ Cardinality(Measured(c)) = 2

\* The RecordErrorCode calls made for call c.
Surfaced(c) == {i \in DOMAIN errorCodes : errorCodes[i].call = c}

\* The measurements of call c that carry a status carry this one.
RecordedWithStatus(c, status) ==
    /\ \E m \in Measured(c) : HasTag(m, StatusKey(c), status)
    /\ \A m \in Measured(c) :
           StatusKey(c) \in TagKeys(m) => HasTag(m, StatusKey(c), status)

\* The measures of the request size and of the response size of a unary call.
RequestBytes(c) ==
    IF rpc[c].role = "UnaryServerInterceptor"
    THEN "grpc.io/server/received_bytes_per_rpc"
    ELSE "grpc.io/client/sent_bytes_per_rpc"
ResponseBytes(c) ==
    IF rpc[c].role = "UnaryServerInterceptor"
    THEN "grpc.io/server/sent_bytes_per_rpc"
    ELSE "grpc.io/client/received_bytes_per_rpc"

-----------------------------------------------------------------------------
(* Properties of concurrent calls, under SpecConcurrent.                   *)

CountMeasures ==
    {"grpc.io/server/completed_rpcs", "grpc.io/client/completed_rpcs",
     "grpc.io/healthprobes/completed_count"}
LatencyMeasures ==
    {"grpc.io/server/server_latency", "grpc.io/client/roundtrip_latency",
     "grpc.io/healthprobes/roundtrip_latency"}

\* The completion counts call c recorded.
Counts(c) == {m \in Measured(c) : m.measure \in CountMeasures}

\* Measurement m, recorded for call c, carries nothing but what is call c's:
\* its method, its status, its sizes, the time since its start.
Own(c, m) ==
    /\ MethodKey(c) \in TagKeys(m) => HasTag(m, MethodKey(c), rpc[c].method)
    /\ StatusKey(c) \in TagKeys(m) => HasTag(m, StatusKey(c), StatusOf(rpc[c].err))
    /\ (Unary(c) /\ m.measure = RequestBytes(c)) => m.value = rpc[c].req.size
    /\ (Unary(c) /\ m.measure = ResponseBytes(c)) =>
           m.value = (IF rpc[c].err.nil THEN rpc[c].resp.size ELSE 0)
    /\ m.measure \in LatencyMeasures => m.value = rpc[c].elapsed
    /\ m.measure \in CountMeasures => m.value = 1

AllCompleted == \A c \in DOMAIN rpc : Completed(c)

\* C26, as claimed: under any interleaving of the calls, every completed call
\* has contributed exactly one completion count, tagged with its own method
\* and its own status; no measurement of a call carries the method, status or
\* size of another; and when all calls have completed there are as many
\* completion counts as calls.
C26_EveryCallCounted ==
    /\ \A c \in DOMAIN rpc :
           /\ \A m \in Measured(c) : Own(c, m)
           /\ Completed(c) =>
                  /\ Cardinality(Counts(c)) = 1
                  /\ \A m \in Counts(c) :
                         /\ HasTag(m, MethodKey(c), rpc[c].method)
                         /\ HasTag(m, StatusKey(c), StatusOf(rpc[c].err))
    /\ AllCompleted =>
           Cardinality({m \in measurements : m.measure \in CountMeasures})
               = Cardinality(DOMAIN rpc)

\* Call c is one whose completion is recorded: any call but a stream without a
\* value for dapr-app-id.
Counted(c) == ~(Streaming(c) /\ ~Proxied(c))

\* C26, amended: every completed call other than a stream without dapr-app-id
\* has contributed exactly one completion count, tagged with its own status
\* and, unless it is a health probe, its own method; a stream without
\* dapr-app-id has contributed nothing; no measurement of a call carries the
\* method, status or size of another; and when all calls have completed
\* there are as many completion counts as calls whose completion is recorded.
C26_EveryRecordedCallCounted ==
    /\ \A c \in DOMAIN rpc :
           /\ \A m \in Measured(c) : Own(c, m)
           /\ (Completed(c) /\ Counted(c)) =>
                  /\ Cardinality(Counts(c)) = 1
                  /\ \A m \in Counts(c) :
                         /\ HasTag(m, StatusKey(c), StatusOf(rpc[c].err))
                         /\ IF HealthProbe(c)
                            THEN TagKeys(m) = {"app_id", "grpc_client_status"}
                            ELSE HasTag(m, MethodKey(c), rpc[c].method)
           /\ (Completed(c) /\ ~Counted(c)) => Measured(c) = {}
    /\ AllCompleted =>
           Cardinality({m \in measurements : m.measure \in CountMeasures})
               = Cardinality({c \in DOMAIN rpc : Counted(c)})

\* Two calls with different methods are both in the middle of their recording
\* operation, each with some of its measurements recorded, one of them failed.
C26_Witness ==
    /\ rpc["c1"].pc = "emit" /\ rpc["c2"].pc = "emit"
    /\ rpc["c1"].method # rpc["c2"].method
    /\ rpc["c1"].err.nil /\ ~rpc["c2"].err.nil
    /\ Measured("c1") # {} /\ Measured("c2") # {}

-----------------------------------------------------------------------------
(* Properties of g.Init beside a recording operation, under SpecRecorder.  *)

\* C27, as claimed: a recording operation that ran beside Init and found the
\* recorder enabled recorded through the meter Init installed and with the
\* appID Init installed, in every interleaving.
C27_NeverHalfInitialised ==
    \A m \in measurements :
        /\ m.meter = "meter"
        /\ HasTag(m, "app_id", "app-1")

\* C28, as claimed: a new recorder is not enabled; the flag is set by Init
\* only; and when Init has returned an error the recorder is not enabled.
C28_DisabledAfterFailedInit ==
    /\ initCall.pc = "none" => ~g.enabled
    /\ g.enabled => "enabled" \in initCall.written
    /\ (initCall.pc = "done" /\ initCall.err # "") => ~g.enabled

=============================================================================
